---------------------------- MODULE Spec2Model ----------------------------
(***************************************************************************)
(* Model of the DSP core of the Nucleo-G431 PCM audio pedal:               *)
(*   Core/Src/dsp/app_dsp.c        orchestrator, control surface           *)
(*   Core/Src/dsp/dsp_filters.c    DC blocker, HPF, compressor, limiter..  *)
(*   Core/Src/dsp/dsp_distortion.c distortion                              *)
(*   Core/Src/dsp/dsp_delay.c      decimated delay                         *)
(*   Core/Src/dsp/dsp_reverb.c     feedback delay + allpass reverb         *)
(*                                                                         *)
(* Integers of the model checker are 32 bits wide, so every int64_t        *)
(* product of the source is computed here limb by limb (MulShr, MixShr,    *)
(* ShlDiv, Mul28): the results are the exact values of the C expressions.  *)
(* uint32_t values that may exceed 2^31-1 (the millisecond tick, the LFO   *)
(* phase, the mask argument) are pairs <<hi16, lo16>>.                     *)
(***************************************************************************)
EXTENDS Integers, Sequences, FiniteSets, TLC

(***************************************************************************)
(* Bounds of the model (not program constants).                            *)
(***************************************************************************)
\* log2 of the delay-effect buffer length used in the model (source: 10)
DelayLenLog2 == 1
\* log2 of the reverb delay-line length used in the model (source: 11)
ReverbLenLog2 == 1
\* log2 of the length of one allpass section used in the model (source: 6)
AllpassLenLog2 == 1
\* calls explored per behaviour of the orchestrator specification
MaxSteps == 3
\* control calls explored per behaviour of the parameter specification
MaxParamOps == 2
\* control calls explored per behaviour of the mode/mask specification
MaxModeOps == 3
\* control calls explored per behaviour of the mode-cycle specification
MaxCycleOps == 6
\* calls explored per behaviour of the effect specification when it drives
\* DspReverb_Process
MaxReverbCalls == 6
\* calls explored per behaviour of the effect specification when it drives
\* DspDelay_Process (one lap of the decimated buffer of the model and two
\* more calls)
MaxDelayCalls == 18
\* calls explored per behaviour of the silence specification, and the
\* number of them that may set the mask
MaxSilenceOps == 9
MaxSilenceMasks == 2
\* DspDelay_Process calls of SpecTiming: one more than DELAY_LEN * 8, so that
\* the first stored sample is read back
MaxTimingCalls == 17
\* frames of SpecTiming: one more than (DELAY_LEN + 1) * 8
MaxTimingFrames == 25
\* sequential calls made before the two concurrent calls of SpecRace
MaxRaceSetup == 1
\* SpecTear: sequential calls before the frame, writes made during the frame
MaxTearSetup == 1
MaxTearWrites == 1
\* calls of SpecDist
MaxDistCalls == 4
\* calls of SpecTwin
MaxTwinSteps == 3
\* calls of SpecGate
MaxGateSteps == 4
\* calls of SpecCursor: a mask and nine frames take the delay cursor once
\* round its buffer
MaxCursorSteps == 11
\* calls of SpecStack: two mixes, a mask and a frame
MaxStackSteps == 4
\* calls of SpecClip: two, so that every pair of inputs is compared
MaxClipCalls == 2
\* frames above the limiter threshold in SpecRelease
MaxLoudFrames == 2
\* calls of SpecComp
MaxCompCalls == 4
\* calls of SpecSettle that are handed a signal, before the input is held at 0
MaxSettleInputs == 2
\* calls of SpecTap: enough for a sample to come back out of the delay line
MaxTapCalls == 5
\* log2 of the number of frames of the audio ring used in the model (source: 8)
AudioRingLog2 == 3
\* frames per half of the I2S buffers used in the model (source: 64)
AudioFramesPerHalf == 3
\* steps of SpecRing (pushes and steps of tx_fill_half)
MaxRingSteps == 12
\* bytes of the UART TX ring used in the model (source: 512)
ComTxRingSize == 8
\* calls of SpecUart (AppCom_Init, uart_send_line, AppCom_OnUartError)
MaxUartSteps == 2
\* UART errors of SpecUart
MaxUartErrors == 1
\* characters of the longest reply text of SpecUart
MaxLineChars == 2
\* calls of SpecPoll (receive callbacks and AppCom_Poll)
MaxPollSteps == 4

(***************************************************************************)
(* Integer widths                                                          *)
(***************************************************************************)
INT32_MAX == 2147483647
INT32_MIN == -2147483647 - 1
S24_MAX == 8388607
S24_MIN == -8388608

Pow2(n) == 2^n

\* a + b in a 32-bit register (two's complement wrap-around)
AddWrap32(a, b) ==
  IF a > 0 /\ b > 0 /\ a > INT32_MAX - b
    THEN (a - INT32_MAX - 1) + (b - INT32_MAX - 1)
  ELSE IF a < 0 /\ b < 0 /\ a < INT32_MIN - b
    THEN (a + INT32_MAX + 1) + (b + INT32_MAX + 1)
  ELSE a + b

\* TRUE iff a + b does not fit in int32_t
AddOverflows32(a, b) ==
  \/ a > 0 /\ b > 0 /\ a > INT32_MAX - b
  \/ a < 0 /\ b < 0 /\ a < INT32_MIN - b

\* C integer division (truncation toward zero), b > 0
CDiv(a, b) == IF a >= 0 THEN a \div b ELSE -((-a) \div b)

\* (int64)a * b >> k for 0 <= b <= 2^16 and k <= 15: exact, arithmetic shift
MulShr(a, b, k) ==
  LET p == Pow2(k)
  IN  (a \div p) * b + (((a % p) * b) \div p)

\* ((int64)x * a + (int64)y * b) >> 15 for a, b >= 0 and a + b <= 2^15
MixShr(x, a, y, b) ==
  LET p == 32768
  IN  (x \div p) * a + (y \div p) * b + (((x % p) * a + (y % p) * b) \div p)

\* floor(r * 2^k / b) for 0 <= r < b < 2^30
RECURSIVE ShlDivRem(_, _, _)
ShlDivRem(r, b, k) ==
  IF k = 0 THEN 0
  ELSE LET r2 == 2 * r
       IN  (r2 \div b) * Pow2(k - 1) + ShlDivRem(r2 % b, b, k - 1)

\* ((int64)a << k) / b for a >= 0, 0 < b < 2^30
ShlDiv(a, b, k) == (a \div b) * Pow2(k) + ShlDivRem(a % b, b, k)

\* (int64)c * s as <<hi, lo>> with c * s = hi * 2^28 + lo, 0 <= lo < 2^28;
\* |c| < 2^29, |s| < 2^25
Mul28(c, s) ==
  LET q   == 16384
      ch  == c \div q
      cl  == c % q
      sh  == s \div q
      sl  == s % q
      mid == ch * sl + cl * sh
      lo  == (mid % q) * q + cl * sl
      hi  == ch * sh + (mid \div q)
  IN  <<hi + (lo \div 268435456), lo % 268435456>>

(***************************************************************************)
(* uint32_t as <<hi16, lo16>>                                              *)
(***************************************************************************)
U32(hi, lo) == <<hi, lo>>

U32Add(a, b) ==
  LET lo == a[2] + b[2]
      hi == a[1] + b[1] + (lo \div 65536)
  IN  <<hi % 65536, lo % 65536>>

U32Sub(a, b) ==
  LET lo == a[2] - b[2]
      hi == a[1] - b[1] + (lo \div 65536)
  IN  <<hi % 65536, lo % 65536>>

\* a < n for a uint32_t a and a small constant n (n <= 65536)
U32Less(a, n) == a[1] = 0 /\ a[2] < n

U32Zero == <<0, 0>>

(***************************************************************************)
(* Helpers shared by the DSP modules                                       *)
(***************************************************************************)
\* clamp_s24 without the saturation
clamp_s24_none(x) == x

clamp_s24(x) ==
  IF x > S24_MAX THEN S24_MAX
  ELSE IF x < S24_MIN THEN S24_MIN
  ELSE x

abs_s32(x) == IF x >= 0 THEN x ELSE -x

gain_s32_q8(x, gain_q8) == MulShr(x, gain_q8, 8)

mix_s24(dry, wet, mix_q15) ==
  LET a == 32768 - mix_q15
  IN  MixShr(dry, a, wet, mix_q15)

(***************************************************************************)
(* dsp_filters.c                                                           *)
(***************************************************************************)
AUDIO_LIMITER_THRESH_S24 == 6500000
AUDIO_LIMITER_RELEASE_Q15 == 16
CLEAN_COMP_THRESH_S24 == 3000000
CLEAN_COMP_RATIO == 2
CLEAN_COMP_ENV_ATTACK_Q15 == 4096
CLEAN_COMP_ENV_RELEASE_Q15 == 256
CLEAN_COMP_GAIN_ATTACK_Q15 == 8192
CLEAN_COMP_GAIN_RELEASE_Q15 == 512
CAB_B0_Q28 == 19407624
CAB_B1_Q28 == 38815248
CAB_B2_Q28 == 19407624
CAB_A1_Q28 == -297323915
CAB_A2_Q28 == 106689359
DC_R_Q15 == 32684

Chan == {"l", "r"}

DcZero == [x1 |-> 0, y1 |-> 0]
CompZero == [env |-> 0, gain_q15 |-> 32768]
BiquadZero == [x1 |-> 0, x2 |-> 0, y1 |-> 0, y2 |-> 0]

\* Every filter returns [st |-> new state, y |-> returned sample].
DspFilters_Hpf1(st, x, r_q15) ==
  LET y == x - st.x1 + MulShr(st.y1, r_q15, 15)
  IN  [st |-> [x1 |-> x, y1 |-> y], y |-> clamp_s24(y)]

DspFilters_DcBlock(st, x) ==
  LET y == x - st.x1 + MulShr(st.y1, DC_R_Q15, 15)
  IN  [st |-> [x1 |-> x, y1 |-> y], y |-> clamp_s24(y)]

\* target gain of the compressor for an envelope value
CompTarget(env) ==
  IF env > CLEAN_COMP_THRESH_S24
    THEN LET over    == env - CLEAN_COMP_THRESH_S24
             out_env == CLEAN_COMP_THRESH_S24 + CDiv(over, CLEAN_COMP_RATIO)
             t       == ShlDiv(out_env, env, 15)
         IN  IF t < 0 THEN 0 ELSE IF t > 32768 THEN 32768 ELSE t
    ELSE 32768

\* DspFilters_CompressOne with a gain step of one and a half times the
\* distance to the target
DspFilters_CompressOneOvershoot(st, x_s24) ==
  LET x     == abs_s32(x_s24)
      diff  == x - st.env
      k_env == IF diff > 0 THEN CLEAN_COMP_ENV_ATTACK_Q15
                           ELSE CLEAN_COMP_ENV_RELEASE_Q15
      env1  == st.env + MulShr(diff, k_env, 15)
      env   == IF env1 < 0 THEN 0 ELSE env1
      gd    == CompTarget(env) - st.gain_q15
      g1    == st.gain_q15 + MulShr(gd, 49152, 15)
      g     == IF g1 < 0 THEN 0 ELSE IF g1 > 32768 THEN 32768 ELSE g1
  IN  [st |-> [env |-> env, gain_q15 |-> g],
       y  |-> clamp_s24(MulShr(x_s24, g, 15))]

DspFilters_CompressOne(st, x_s24) ==
  LET x     == abs_s32(x_s24)
      diff  == x - st.env
      k_env == IF diff > 0 THEN CLEAN_COMP_ENV_ATTACK_Q15
                           ELSE CLEAN_COMP_ENV_RELEASE_Q15
      env1  == st.env + MulShr(diff, k_env, 15)
      env   == IF env1 < 0 THEN 0 ELSE env1
      target_gain_q15 == CompTarget(env)
      gd    == target_gain_q15 - st.gain_q15
      k_g   == IF gd < 0 THEN CLEAN_COMP_GAIN_ATTACK_Q15
                         ELSE CLEAN_COMP_GAIN_RELEASE_Q15
      g1    == st.gain_q15 + MulShr(gd, k_g, 15)
      g     == IF g1 < 0 THEN 0 ELSE IF g1 > 32768 THEN 32768 ELSE g1
  IN  [st |-> [env |-> env, gain_q15 |-> g],
       y  |-> clamp_s24(MulShr(x_s24, g, 15))]

\* target gain of the limiter for a peak value
LimiterTarget(peak) ==
  IF peak > AUDIO_LIMITER_THRESH_S24
    THEN LET t == ShlDiv(AUDIO_LIMITER_THRESH_S24, peak, 15)
         IN  IF t < 0 THEN 0 ELSE IF t > 32768 THEN 32768 ELSE t
    ELSE 32768

\* new limiter gain with the attack smoothed like the compressor's
LimiterGainSmoothedAttack(g0, target) ==
  IF target < g0
    THEN g0 + MulShr(target - g0, CLEAN_COMP_GAIN_ATTACK_Q15, 15)
    ELSE LET g1 == g0 + MulShr(target - g0, AUDIO_LIMITER_RELEASE_Q15, 15)
         IN  IF g1 > 32768 THEN 32768 ELSE g1

\* new limiter gain: instant attack, smoothed release
LimiterGain(g0, target) ==
  IF target < g0
    THEN target
    ELSE LET g1 == g0 + MulShr(target - g0, AUDIO_LIMITER_RELEASE_Q15, 15)
         IN  IF g1 > 32768 THEN 32768 ELSE g1

\* a limiter that derives a gain for each channel from that channel's own
\* peak and keeps the left one
DspFilters_LimiterDualMono(g0, l, r) ==
  LET gl == LimiterGain(g0, LimiterTarget(abs_s32(l)))
      gr == LimiterGain(g0, LimiterTarget(abs_s32(r)))
  IN  [gain_q15 |-> gl,
       l |-> clamp_s24(MulShr(l, gl, 15)),
       r |-> clamp_s24(MulShr(r, gr, 15))]

\* returns [gain_q15 |-> new s_limiter.gain_q15, l |-> *l, r |-> *r]
DspFilters_Limiter(g0, l, r) ==
  LET a    == abs_s32(l)
      b    == abs_s32(r)
      peak == IF a > b THEN a ELSE b
      g    == LimiterGain(g0, LimiterTarget(peak))
  IN  [gain_q15 |-> g,
       l |-> clamp_s24(MulShr(l, g, 15)),
       r |-> clamp_s24(MulShr(r, g, 15))]

DspFilters_CabSim(st, x) ==
  LET p0  == Mul28(CAB_B0_Q28, x)
      p1  == Mul28(CAB_B1_Q28, st.x1)
      p2  == Mul28(CAB_B2_Q28, st.x2)
      p3  == Mul28(CAB_A1_Q28, st.y1)
      p4  == Mul28(CAB_A2_Q28, st.y2)
      hi  == p0[1] + p1[1] + p2[1] - p3[1] - p4[1]
      lo  == p0[2] + p1[2] + p2[2] - p3[2] - p4[2]
      y   == clamp_s24(hi + (lo \div 268435456))
  IN  [st |-> [x1 |-> x, x2 |-> st.x1, y1 |-> y, y2 |-> st.y1], y |-> y]

DspFilters_OnePole(x, st, a_q15) ==
  LET y == clamp_s24(st + MulShr(x - st, a_q15, 15))
  IN  [st |-> y, y |-> y]

(***************************************************************************)
(* dsp_distortion.c                                                        *)
(***************************************************************************)
DIST_DRIVE_DEFAULT_Q8 == 40960
DIST_DRIVE_MAX_Q8 == 131072
hp_r_q15 == 32113
lp_a_q15 == 12000
level_q8 == 256
thr_pos == 1200000
thr_neg == 900000

DistZero == [hp_x1 |-> 0, hp_y1 |-> 0, lp_y1 |-> 0, os_x1 |-> 0]

\* outcomes of a signed overflow of int32_t addition: the sum wrapped by a
\* 32-bit add, or the exact sum kept in a wider intermediate
UbOutcomes == {"wrap", "exact"}

\* hard_tube_clip_s24 with the sign of the negative threshold lost
hard_tube_clip_sign_lost(x) ==
  IF x > thr_pos
    THEN thr_pos + ((x - thr_pos) \div 1024)
  ELSE IF x < thr_neg
    THEN -thr_neg + ((x + thr_neg) \div 1024)
  ELSE x

\* hard_tube_clip_s24 with the overshoot divided by 1024 and truncated toward
\* zero instead of shifted
hard_tube_clip_truncating(x) ==
  IF x > thr_pos
    THEN thr_pos + CDiv(x - thr_pos, 1024)
  ELSE IF x < -thr_neg
    THEN -thr_neg + CDiv(x + thr_neg, 1024)
  ELSE x

hard_tube_clip_s24(x) ==
  IF x > thr_pos
    THEN thr_pos + ((x - thr_pos) \div 1024)
  ELSE IF x < -thr_neg
    THEN -thr_neg + ((x + thr_neg) \div 1024)
  ELSE x

\* DspDistortion_SetDrive without its upper limit
SetDriveNoUpperLimit(drive_q8) == IF drive_q8 < 0 THEN 0 ELSE drive_q8

\* value stored by DspDistortion_SetDrive
DspDistortion_SetDrive(drive_q8) ==
  LET a == IF drive_q8 < 0 THEN 0 ELSE drive_q8
  IN  IF a > DIST_DRIVE_MAX_Q8 THEN DIST_DRIVE_MAX_Q8 ELSE a

\* ((int64)hp_y * drive) >> 8 as <<top, low>>: the exact value is
\* top * 4096 + low with 0 <= low < 4096 (0 <= drive <= 2^17, hp_y an int32)
DriveStage(hp_y, drive) ==
  LET q  == hp_y \div 256
      r  == hp_y % 256
      A  == (q \div 4096) * drive
      B  == (q % 4096) * drive + ((r * drive) \div 256)
  IN  <<A + (B \div 4096), B % 4096>>

\* TRUE iff the drive-stage value fits in int32_t
DriveFits(hp_y, drive) ==
  LET t == DriveStage(hp_y, drive)[1]
  IN  -524288 <= t /\ t <= 524287

\* (int32_t)(((int64)hp_y * drive) >> 8): the low 32 bits
DriveMul32(hp_y, drive) ==
  LET d == DriveStage(hp_y, drive)
      t == ((d[1] + 524288) % 1048576) - 524288
  IN  t * 4096 + d[2]

\* (d24 + os_x1) >> 1 in int32_t arithmetic
OsMid(d24, os_x1, ub) ==
  IF AddOverflows32(d24, os_x1) /\ ub = "exact"
    THEN (d24 \div 2) + (os_x1 \div 2) + (((d24 % 2) + (os_x1 % 2)) \div 2)
    ELSE AddWrap32(d24, os_x1) \div 2

DspDistortion_Process(st, x, drive, ub) ==
  LET hp_y    == x - st.hp_x1 + MulShr(st.hp_y1, hp_r_q15, 15)
      d24     == DriveMul32(hp_y, drive)
      d24_mid == OsMid(d24, st.os_x1, ub)
      y0      == hard_tube_clip_s24(clamp_s24(d24))
      y1      == hard_tube_clip_s24(clamp_s24(d24_mid))
      y24     == (y0 + y1) \div 2
      lp_y1   == st.lp_y1 + MulShr(y24 - st.lp_y1, lp_a_q15, 15)
  IN  [st |-> [hp_x1 |-> x, hp_y1 |-> hp_y, lp_y1 |-> lp_y1, os_x1 |-> d24],
       y  |-> clamp_s24(MulShr(lp_y1, level_q8, 8))]

(***************************************************************************)
(* dsp_delay.c                                                             *)
(***************************************************************************)
\* source: 1024; the model runs with 2^DelayLenLog2 entries
DELAY_LEN == Pow2(DelayLenLog2)
DELAY_FEEDBACK_Q15 == 16384
DELAY_MIX_Q15 == 11469
DELAY_DECIM == 8
DELAY_FB_LPF_A_Q15 == 1024

DelayBufZero == [i \in 0..(DELAY_LEN - 1) |-> 0]
DelayZero == [idx |-> 0, phase |-> 0, last_out_s24 |-> 0, fb_lp_s24 |-> 0]

s24_to_s16(x) ==
  LET y == clamp_s24(x) \div 256
  IN  IF y > 32767 THEN 32767 ELSE IF y < -32768 THEN -32768 ELSE y

onepole_lpf_s24(x, st, a_q15) == clamp_s24(st + MulShr(x - st, a_q15, 15))

\* value stored by DspDelay_SetMix / DspDelay_SetFeedback
DspDelay_SetMix(mix_q15) ==
  LET a == IF mix_q15 < 0 THEN 0 ELSE mix_q15
  IN  IF a > 32768 THEN 32768 ELSE a

DspDelay_SetFeedback(feedback_q15) ==
  LET a == IF feedback_q15 < 0 THEN 0 ELSE feedback_q15
  IN  IF a > 32768 THEN 32768 ELSE a

\* a delay that reads and writes its buffer on every call, whatever the phase
DspDelay_ProcessUndecimated(x, delay, st, feedback) ==
  LET i     == st.idx
      d     == delay[i] * 256
      fb_lp == onepole_lpf_s24(d, st.fb_lp_s24, DELAY_FB_LPF_A_Q15)
      fb    == MulShr(fb_lp, feedback, 15)
  IN  [buf |-> [delay EXCEPT ![i] = s24_to_s16(clamp_s24(x + fb))],
       st  |-> [idx |-> (i + 1) % DELAY_LEN,
                phase |-> (st.phase + 1) % DELAY_DECIM,
                last_out_s24 |-> d, fb_lp_s24 |-> fb_lp],
       y   |-> d]

\* a delay that returns silence, not the held output, between two updates
\* of its buffer
DspDelay_ProcessNoHold(x, delay, st, feedback) ==
  LET i     == st.idx
      d     == delay[i] * 256
      fb_lp == onepole_lpf_s24(d, st.fb_lp_s24, DELAY_FB_LPF_A_Q15)
      fb    == MulShr(fb_lp, feedback, 15)
      phase == (st.phase + 1) % DELAY_DECIM
  IN  IF st.phase = 0
        THEN [buf |-> [delay EXCEPT ![i] = s24_to_s16(clamp_s24(x + fb))],
              st  |-> [idx |-> (i + 1) % DELAY_LEN, phase |-> phase,
                       last_out_s24 |-> d, fb_lp_s24 |-> fb_lp],
              y   |-> d]
        ELSE [buf |-> delay,
              st  |-> [st EXCEPT !.phase = phase],
              y   |-> 0]

\* returns [buf |-> delay[], st |-> *st, y |-> returned sample]
DspDelay_Process(x, delay, st, feedback) ==
  LET i     == st.idx
      d     == delay[i] * 256
      fb_lp == onepole_lpf_s24(d, st.fb_lp_s24, DELAY_FB_LPF_A_Q15)
      fb    == MulShr(fb_lp, feedback, 15)
      phase == (st.phase + 1) % DELAY_DECIM
  IN  IF st.phase = 0
        THEN [buf |-> [delay EXCEPT ![i] = s24_to_s16(clamp_s24(x + fb))],
              st  |-> [idx |-> (i + 1) % DELAY_LEN, phase |-> phase,
                       last_out_s24 |-> d, fb_lp_s24 |-> fb_lp],
              y   |-> d]
        ELSE [buf |-> delay,
              st  |-> [st EXCEPT !.phase = phase],
              y   |-> st.last_out_s24]

(***************************************************************************)
(* dsp_reverb.c                                                            *)
(***************************************************************************)
\* source: 2048; the model runs with 2^ReverbLenLog2 entries
REVERB_DELAY_LEN == Pow2(ReverbLenLog2)
\* source: 64 and 64; the model runs with 2^AllpassLenLog2 entries each
REVERB_AP1_LEN == Pow2(AllpassLenLog2)
REVERB_AP2_LEN == Pow2(AllpassLenLog2)
\* source: 128 = 64 + 64
REVERB_AP_LEN == REVERB_AP1_LEN + REVERB_AP2_LEN
REVERB_FEEDBACK_Q15 == 22000
REVERB_DAMP_Q15 == 8192
REVERB_AP_G_Q15 == 22938
REVERB_MIX_Q15 == 9830
REVERB_MOD_AMP_SAMPLES == 0

\* lfo_step passed for the left and the right channel (65536U, 77824U)
LfoStep(c) == IF c = "l" THEN U32(1, 0) ELSE U32(1, 12288)

ReverbZero ==
  [delay   |-> [i \in 0..(REVERB_DELAY_LEN - 1) |-> 0],
   ap      |-> [i \in 0..(REVERB_AP_LEN - 1) |-> 0],
   idx     |-> 0,
   ap1_idx |-> 0,
   ap2_idx |-> 0,
   lp      |-> 0,
   lfo     |-> U32Zero]

DspReverb_SetMix(mix_q15) ==
  LET a == IF mix_q15 < 0 THEN 0 ELSE mix_q15
  IN  IF a > 32768 THEN 32768 ELSE a

DspReverb_SetFeedback(feedback_q15) ==
  LET a == IF feedback_q15 < 0 THEN 0 ELSE feedback_q15
  IN  IF a > 32768 THEN 32768 ELSE a

DspReverb_SetDamp(damp_q15) ==
  LET a == IF damp_q15 < 0 THEN 0 ELSE damp_q15
  IN  IF a > 32768 THEN 32768 ELSE a

\* triangle_lfo_offset_q8 with an amplitude of one sample whatever amplitude
\* it is handed
triangle_lfo_one_sample(phase, step, amp_samples) ==
  LET ph   == U32Add(phase, step)
      t    == ph[1] \div 256
      tri  == IF t < 128 THEN t ELSE 255 - t
      o1   == CDiv((tri - 64) * 256, 64)
      o2   == IF o1 > 256 THEN 256 ELSE o1
      o3   == IF o2 < -256 THEN -256 ELSE o2
  IN  [phase |-> ph, off_q8 |-> o3]

\* returns [phase |-> *phase, off_q8 |-> returned offset]
triangle_lfo_offset_q8(phase, step, amp_samples) ==
  LET ph   == U32Add(phase, step)
      t    == ph[1] \div 256
      tri  == IF t < 128 THEN t ELSE 255 - t
      off  == tri - 64
      o1   == CDiv(off * (amp_samples * 256), 64)
      lim  == amp_samples * 256
      o2   == IF o1 > lim THEN lim ELSE o1
      o3   == IF o2 < -lim THEN -lim ELSE o2
  IN  [phase |-> ph, off_q8 |-> o3]

\* one allpass section that neither saturates the stored nor the returned
\* sample
allpass_unsaturated(x, buf, base, idx, len) ==
  LET b     == buf[base + idx]
      y     == b - MulShr(x, REVERB_AP_G_Q15, 15)
      new_b == x + MulShr(y, REVERB_AP_G_Q15, 15)
  IN  [buf |-> [buf EXCEPT ![base + idx] = new_b],
       idx |-> (idx + 1) % len,
       y   |-> y]

\* one allpass section on buf[base .. base+len-1];
\* returns [buf |-> buf[], idx |-> *idx, y |-> returned sample]
allpass_process_s24_len(x, buf, base, idx, len) ==
  LET b     == buf[base + idx]
      y     == b - MulShr(x, REVERB_AP_G_Q15, 15)
      new_b == x + MulShr(y, REVERB_AP_G_Q15, 15)
  IN  [buf |-> [buf EXCEPT ![base + idx] = clamp_s24(new_b)],
       idx |-> (idx + 1) % len,
       y   |-> clamp_s24(y)]

\* the write half of DspReverb_Process with a delay cursor that is advanced
\* but not wrapped
ReverbWriteCursorUnwrapped(x, st, lfo_phase, ri0, ri1, d, lpv, feedback) ==
  LET a1 == allpass_process_s24_len(d, st.ap, 0, st.ap1_idx, REVERB_AP1_LEN)
      a2 == allpass_process_s24_len(a1.y, a1.buf, REVERB_AP1_LEN,
                                    st.ap2_idx, REVERB_AP2_LEN)
      fb == MulShr(lpv, feedback, 15)
  IN  [st |-> [delay   |-> [st.delay EXCEPT ![st.idx] = clamp_s24(x + fb)],
               ap      |-> a2.buf,
               idx     |-> st.idx + 1,
               ap1_idx |-> a1.idx,
               ap2_idx |-> a2.idx,
               lp      |-> lpv,
               lfo     |-> lfo_phase],
       y   |-> a2.y,
       ri0 |-> ri0,
       ri1 |-> ri1,
       d   |-> d]

\* DspReverb_Process after the read of the delay line: the damping filter
\* value lpv, the write of delay[i] and the two allpass sections
ReverbWrite(x, st, lfo_phase, ri0, ri1, d, lpv, feedback) ==
  LET a1 == allpass_process_s24_len(d, st.ap, 0, st.ap1_idx, REVERB_AP1_LEN)
      a2 == allpass_process_s24_len(a1.y, a1.buf, REVERB_AP1_LEN,
                                    st.ap2_idx, REVERB_AP2_LEN)
      fb == MulShr(lpv, feedback, 15)
  IN  [st |-> [delay   |-> [st.delay EXCEPT ![st.idx] = clamp_s24(x + fb)],
               ap      |-> a2.buf,
               idx     |-> (st.idx + 1) % REVERB_DELAY_LEN,
               ap1_idx |-> a1.idx,
               ap2_idx |-> a2.idx,
               lp      |-> lpv,
               lfo     |-> lfo_phase],
       y   |-> a2.y,
       ri0 |-> ri0,
       ri1 |-> ri1,
       d   |-> d]

\* DspReverb_Process after the LFO: the interpolated read of the delay line
ReverbRead(x, st, lfo, damp, feedback) ==
  LET mod_i == lfo.off_q8 \div 256
      frac  == lfo.off_q8 % 256
      ri0   == (st.idx + mod_i + REVERB_DELAY_LEN) % REVERB_DELAY_LEN
      ri1   == (ri0 + 1) % REVERB_DELAY_LEN
      d     == st.delay[ri0] + MulShr(st.delay[ri1] - st.delay[ri0], frac, 8)
  IN  ReverbWrite(x, st, lfo.phase, ri0, ri1, d,
                  st.lp + MulShr(d - st.lp, damp, 15), feedback)

\* returns [st |-> the channel's reverb state, y |-> returned sample,
\*          ri0 |-> , ri1 |-> the taps read, d |-> the interpolated read]
DspReverb_Process(x, st, lfo_step, damp, feedback) ==
  ReverbRead(x, st,
             triangle_lfo_offset_q8(st.lfo, lfo_step, REVERB_MOD_AMP_SAMPLES),
             damp, feedback)

(***************************************************************************)
(* app_dsp.h / app_dsp.c: the orchestrator                                 *)
(***************************************************************************)
APP_FX_MODE_BYPASS == 0
APP_FX_MODE_DISTORTION == 1
APP_FX_MODE_REVERB == 2
APP_FX_MODE_DELAY == 3
APP_FX_MODE_ALL == 4

APP_FX_BIT_DISTORTION == 1
APP_FX_BIT_REVERB == 2
APP_FX_BIT_DELAY == 4

APP_DSP_PARAM_DIST_DRIVE_Q8 == 0
APP_DSP_PARAM_DELAY_MIX_Q15 == 1
APP_DSP_PARAM_DELAY_FEEDBACK_Q15 == 2
APP_DSP_PARAM_REVERB_MIX_Q15 == 3
APP_DSP_PARAM_REVERB_FEEDBACK_Q15 == 4
APP_DSP_PARAM_REVERB_DAMP_Q15 == 5
APP_DSP_PARAM_GAIN_Q15 == 6

AUDIO_INPUT_GAIN_Q8 == 1536
AUDIO_MAKEUP_GAIN_Q8 == 1000
CLEAN_HPF_R_Q15 == 32384
WET_HPF_R_Q15 == 32004
WET_LPF_A_Q15 == 2048
BUTTON_DEBOUNCE_MS == 300
GAIN_UNITY_Q15 == 32768
GAIN_MAX_Q15 == 65536

VARIABLES
  \* app_dsp.c
  s_mode, s_button_last_ms, s_fx_mask, s_gain_q15,
  \* dsp_distortion.c
  s_dist_drive_q8, s_dist,
  \* dsp_delay.c
  s_delay_mix_q15, s_delay_feedback_q15, s_delay_buf, s_delay,
  \* dsp_reverb.c (s_reverb[c] groups the channel's s_reverb_* statics)
  s_reverb_mix_q15, s_reverb_feedback_q15, s_reverb_damp_q15, s_reverb,
  \* dsp_filters.c
  s_limiter, s_dc, s_clean_hpf, s_wet_hpf_delay, s_wet_hpf_reverb,
  s_comp, s_cab, s_wet_lpf_delay, s_wet_lpf_reverb,
  \* observation: the last call and its arguments, the calls since the last
  \* AppDsp_Init, what the last frame computed, the number of calls made
  \* and, in the effect-level specification, the effect being driven
  call, hist, ret, steps, fx_sel,
  \* app_audio.c (the ring between the two I2S callbacks and the activation
  \* of tx_fill_half in progress) and app_com.c (the UART rings, the line
  \* buffer and the transfer handed to the HAL)
  s_audio, s_com

modeVars == <<s_mode, s_button_last_ms, s_fx_mask>>
paramVars == <<s_gain_q15, s_dist_drive_q8, s_delay_mix_q15,
               s_delay_feedback_q15, s_reverb_mix_q15,
               s_reverb_feedback_q15, s_reverb_damp_q15>>
filterVars == <<s_limiter, s_dc, s_clean_hpf, s_wet_hpf_delay,
                s_wet_hpf_reverb, s_comp, s_cab, s_wet_lpf_delay,
                s_wet_lpf_reverb>>
fxVars == <<s_dist, s_delay_buf, s_delay, s_reverb>>
obsVars == <<call, hist, ret, steps, fx_sel>>
ioVars == <<s_audio, s_com>>
vars == <<modeVars, paramVars, filterVars, fxVars, obsVars, ioVars>>

\* bit test of a mask value 0..7
HasBit(mask, bit) == (mask \div bit) % 2 = 1

DspFilters_Init ==
  /\ s_dc' = [c \in Chan |-> DcZero]
  /\ s_clean_hpf' = [c \in Chan |-> DcZero]
  /\ s_wet_hpf_delay' = [c \in Chan |-> DcZero]
  /\ s_wet_hpf_reverb' = [c \in Chan |-> DcZero]
  /\ s_comp' = [c \in Chan |-> CompZero]
  /\ s_cab' = [c \in Chan |-> BiquadZero]
  /\ s_wet_lpf_delay' = [c \in Chan |-> 0]
  /\ s_wet_lpf_reverb' = [c \in Chan |-> 0]
  /\ s_limiter' = 32768

DspDistortion_Init == s_dist' = [c \in Chan |-> DistZero]

DspDelay_Init ==
  /\ s_delay_buf' = [c \in Chan |-> DelayBufZero]
  /\ s_delay' = [c \in Chan |-> DelayZero]

DspReverb_Init == s_reverb' = [c \in Chan |-> ReverbZero]

AppDsp_Init ==
  /\ DspFilters_Init
  /\ DspDistortion_Init
  /\ DspDelay_Init
  /\ DspReverb_Init
  /\ s_mode' = APP_FX_MODE_BYPASS
  /\ s_button_last_ms' = U32Zero
  /\ s_fx_mask' = 0
  /\ s_gain_q15' = GAIN_UNITY_Q15
  /\ UNCHANGED <<s_dist_drive_q8, s_delay_mix_q15, s_delay_feedback_q15,
                 s_reverb_mix_q15, s_reverb_feedback_q15, s_reverb_damp_q15>>

\* the debounce test written as now_ms < last_ms + 300 in a wider type
DebouncedNoWrap(now_ms, last_ms) ==
  LET lo == last_ms[2] + BUTTON_DEBOUNCE_MS
      hi == last_ms[1] + (lo \div 65536)
  IN  now_ms[1] < hi \/ (now_ms[1] = hi /\ now_ms[2] < lo % 65536)

\* the debounce test: TRUE iff the press is ignored
Debounced(now_ms, last_ms) ==
  U32Less(U32Sub(now_ms, last_ms), BUTTON_DEBOUNCE_MS)

\* the switch of AppDsp_OnButtonPress with ALL leading to DISTORTION
NextModeSkipsBypass(mode) ==
  IF mode = APP_FX_MODE_ALL THEN APP_FX_MODE_DISTORTION
  ELSE IF mode < APP_FX_MODE_ALL THEN mode + 1
  ELSE APP_FX_MODE_BYPASS

\* the switch of AppDsp_OnButtonPress
NextMode(mode) ==
  CASE mode = APP_FX_MODE_BYPASS     -> APP_FX_MODE_DISTORTION
    [] mode = APP_FX_MODE_DISTORTION -> APP_FX_MODE_REVERB
    [] mode = APP_FX_MODE_REVERB     -> APP_FX_MODE_DELAY
    [] mode = APP_FX_MODE_DELAY      -> APP_FX_MODE_ALL
    [] OTHER                         -> APP_FX_MODE_BYPASS

\* the if-chain of AppDsp_OnButtonPress (no branch taken: mask kept)
MaskOfMode(mode, old_mask) ==
  IF mode = APP_FX_MODE_BYPASS THEN 0
  ELSE IF mode = APP_FX_MODE_DISTORTION THEN APP_FX_BIT_DISTORTION
  ELSE IF mode = APP_FX_MODE_REVERB THEN APP_FX_BIT_REVERB
  ELSE IF mode = APP_FX_MODE_DELAY THEN APP_FX_BIT_DELAY
  ELSE IF mode = APP_FX_MODE_ALL
    THEN APP_FX_BIT_DISTORTION + APP_FX_BIT_REVERB + APP_FX_BIT_DELAY
  ELSE old_mask

AppDsp_OnButtonPress(now_ms) ==
  /\ IF Debounced(now_ms, s_button_last_ms)
       THEN UNCHANGED modeVars
       ELSE /\ s_button_last_ms' = now_ms
            /\ s_mode' = NextMode(s_mode)
            /\ s_fx_mask' = MaskOfMode(NextMode(s_mode), s_fx_mask)
  /\ UNCHANGED <<paramVars, filterVars, fxVars>>

AppDsp_GetMode == s_mode

\* a sanitisation that lets a fourth bit through
SanitizeMaskFourBits(mask) == mask[2] % 16

\* mask & (DISTORTION | REVERB | DELAY) of a uint32_t argument
SanitizeMask(mask) == mask[2] % 8

\* the if-chain of AppDsp_SetFxMask testing single bits instead of the
\* whole mask
ModeOfMaskByBit(mask) ==
  IF mask = 0 THEN APP_FX_MODE_BYPASS
  ELSE IF HasBit(mask, APP_FX_BIT_DISTORTION) THEN APP_FX_MODE_DISTORTION
  ELSE IF HasBit(mask, APP_FX_BIT_REVERB) THEN APP_FX_MODE_REVERB
  ELSE IF HasBit(mask, APP_FX_BIT_DELAY) THEN APP_FX_MODE_DELAY
  ELSE APP_FX_MODE_ALL

\* the if-chain of AppDsp_SetFxMask
ModeOfMask(mask) ==
  IF mask = 0 THEN APP_FX_MODE_BYPASS
  ELSE IF mask = APP_FX_BIT_DISTORTION THEN APP_FX_MODE_DISTORTION
  ELSE IF mask = APP_FX_BIT_REVERB THEN APP_FX_MODE_REVERB
  ELSE IF mask = APP_FX_BIT_DELAY THEN APP_FX_MODE_DELAY
  ELSE APP_FX_MODE_ALL

AppDsp_SetFxMask(mask) ==
  /\ s_fx_mask' = SanitizeMask(mask)
  /\ s_mode' = ModeOfMask(SanitizeMask(mask))
  /\ UNCHANGED <<s_button_last_ms, paramVars, filterVars, fxVars>>

AppDsp_GetFxMask == s_fx_mask

\* value stored by the APP_DSP_PARAM_GAIN_Q15 case of AppDsp_SetParam
SetGain(value) ==
  LET a == IF value < 0 THEN 0 ELSE value
  IN  IF a > GAIN_MAX_Q15 THEN GAIN_MAX_Q15 ELSE a

AppDsp_SetParam(id, value) ==
  /\ s_dist_drive_q8' =
       IF id = APP_DSP_PARAM_DIST_DRIVE_Q8
         THEN DspDistortion_SetDrive(value) ELSE s_dist_drive_q8
  /\ s_delay_mix_q15' =
       IF id = APP_DSP_PARAM_DELAY_MIX_Q15
         THEN DspDelay_SetMix(value) ELSE s_delay_mix_q15
  /\ s_delay_feedback_q15' =
       IF id = APP_DSP_PARAM_DELAY_FEEDBACK_Q15
         THEN DspDelay_SetFeedback(value) ELSE s_delay_feedback_q15
  /\ s_reverb_mix_q15' =
       IF id = APP_DSP_PARAM_REVERB_MIX_Q15
         THEN DspReverb_SetMix(value) ELSE s_reverb_mix_q15
  /\ s_reverb_feedback_q15' =
       IF id = APP_DSP_PARAM_REVERB_FEEDBACK_Q15
         THEN DspReverb_SetFeedback(value) ELSE s_reverb_feedback_q15
  /\ s_reverb_damp_q15' =
       IF id = APP_DSP_PARAM_REVERB_DAMP_Q15
         THEN DspReverb_SetDamp(value) ELSE s_reverb_damp_q15
  /\ s_gain_q15' =
       IF id = APP_DSP_PARAM_GAIN_Q15 THEN SetGain(value) ELSE s_gain_q15
  /\ UNCHANGED <<modeVars, filterVars, fxVars>>

AppDsp_GetParam(id) ==
  CASE id = APP_DSP_PARAM_DIST_DRIVE_Q8       -> s_dist_drive_q8
    [] id = APP_DSP_PARAM_DELAY_MIX_Q15       -> s_delay_mix_q15
    [] id = APP_DSP_PARAM_DELAY_FEEDBACK_Q15  -> s_delay_feedback_q15
    [] id = APP_DSP_PARAM_REVERB_MIX_Q15      -> s_reverb_mix_q15
    [] id = APP_DSP_PARAM_REVERB_FEEDBACK_Q15 -> s_reverb_feedback_q15
    [] id = APP_DSP_PARAM_REVERB_DAMP_Q15     -> s_reverb_damp_q15
    [] id = APP_DSP_PARAM_GAIN_Q15            -> s_gain_q15
    [] OTHER                                  -> 0

(***************************************************************************)
(* AppDsp_ProcessFrame                                                     *)
(***************************************************************************)
\* number of effects enabled in a mask
FxCount(mask) ==
  (IF HasBit(mask, APP_FX_BIT_DISTORTION) THEN 1 ELSE 0)
  + (IF HasBit(mask, APP_FX_BIT_REVERB) THEN 1 ELSE 0)
  + (IF HasBit(mask, APP_FX_BIT_DELAY) THEN 1 ELSE 0)

\* the reverb's wet mix with a stacked mix that is half the default mix,
\* whatever mix was set
ReverbMixEffStackedDefault(mask, mix) ==
  IF FxCount(mask) > 1 THEN CDiv(REVERB_MIX_Q15, 2) ELSE mix

\* effective wet mix of the delay and of the reverb stage
DelayMixEff(mask, mix) == IF FxCount(mask) > 1 THEN CDiv(mix * 3, 4) ELSE mix
ReverbMixEff(mask, mix) == IF FxCount(mask) > 1 THEN CDiv(mix, 2) ELSE mix

\* makeup gain of the frame
MakeupQ8(mask) ==
  IF mask # 0 THEN CDiv(AUDIO_MAKEUP_GAIN_Q8 * 3, 4) ELSE AUDIO_MAKEUP_GAIN_Q8

\* what each call of a frame returned on one channel (0: not called)
NoReturns ==
  [DcBlock |-> 0, CleanHpf |-> 0, Distortion |-> 0, CabSim |-> 0,
   Delay |-> 0, WetHpfDelay |-> 0, WetLpfDelay |-> 0,
   Reverb |-> 0, WetHpfReverb |-> 0, WetLpfReverb |-> 0]

\* the wet mix each mix_s24 call of a frame was handed on one channel
\* (-1: not called)
NoMixes == [Delay |-> -1, Reverb |-> -1]

\* a frame whose two channels both start from the compressor state of the
\* right channel
ChanStartSharedCompressor(S, c, x) ==
  [c |-> c, v |-> x, w |-> 0,
   dc             |-> S.dc[c],
   clean_hpf      |-> S.clean_hpf[c],
   comp           |-> S.comp["r"],
   dist           |-> S.dist[c],
   cab            |-> S.cab[c],
   delay_buf      |-> S.delay_buf[c],
   delay          |-> S.delay[c],
   wet_hpf_delay  |-> S.wet_hpf_delay[c],
   wet_lpf_delay  |-> S.wet_lpf_delay[c],
   reverb         |-> S.reverb[c],
   wet_hpf_reverb |-> S.wet_hpf_reverb[c],
   wet_lpf_reverb |-> S.wet_lpf_reverb[c],
   returned       |-> NoReturns,
   mixed          |-> NoMixes]

\* One channel at the start of a frame: the sample in v (l or r of the
\* source), the wet sample in w (wl or wr), the channel's state records
ChanStartOf(S, c, x) ==
  [c |-> c, v |-> x, w |-> 0,
   dc             |-> S.dc[c],
   clean_hpf      |-> S.clean_hpf[c],
   comp           |-> S.comp[c],
   dist           |-> S.dist[c],
   cab            |-> S.cab[c],
   delay_buf      |-> S.delay_buf[c],
   delay          |-> S.delay[c],
   wet_hpf_delay  |-> S.wet_hpf_delay[c],
   wet_lpf_delay  |-> S.wet_lpf_delay[c],
   reverb         |-> S.reverb[c],
   wet_hpf_reverb |-> S.wet_hpf_reverb[c],
   wet_lpf_reverb |-> S.wet_lpf_reverb[c],
   returned       |-> NoReturns,
   mixed          |-> NoMixes]

\* the filter and effect state of the two channels
StateNow ==
  [dc             |-> s_dc,
   clean_hpf      |-> s_clean_hpf,
   comp           |-> s_comp,
   dist           |-> s_dist,
   cab            |-> s_cab,
   delay_buf      |-> s_delay_buf,
   delay          |-> s_delay,
   wet_hpf_delay  |-> s_wet_hpf_delay,
   wet_lpf_delay  |-> s_wet_lpf_delay,
   reverb         |-> s_reverb,
   wet_hpf_reverb |-> s_wet_hpf_reverb,
   wet_lpf_reverb |-> s_wet_lpf_reverb]

ChanStart(c, x) == ChanStartOf(StateNow, c, x)

\* The control surface as one channel of a frame reads it: the mask and the
\* effective mixes are read once per frame, the drive, the feedbacks, the
\* damping and the master gain once per channel.
CtlNow ==
  [mask  |-> s_fx_mask,
   drive |-> s_dist_drive_q8,
   dfb   |-> s_delay_feedback_q15,
   dmix  |-> s_delay_mix_q15,
   damp  |-> s_reverb_damp_q15,
   rfb   |-> s_reverb_feedback_q15,
   rmix  |-> s_reverb_mix_q15,
   gain  |-> s_gain_q15]

\* pre-processing
PreDcBlock(h) ==
  LET f == DspFilters_DcBlock(h.dc, h.v)
  IN  [h EXCEPT !.dc = f.st, !.v = f.y, !.returned.DcBlock = f.y]

PreCleanHpf(h) ==
  LET f == DspFilters_Hpf1(h.clean_hpf, h.v, CLEAN_HPF_R_Q15)
  IN  [h EXCEPT !.clean_hpf = f.st, !.v = f.y, !.returned.CleanHpf = f.y]

PreInputGain(h) == [h EXCEPT !.v = gain_s32_q8(h.v, AUDIO_INPUT_GAIN_Q8)]

PreCompress(h) ==
  LET f == DspFilters_CompressOne(h.comp, h.v)
  IN  [h EXCEPT !.comp = f.st, !.v = f.y]

\* distortion and cabinet simulation
FxDistortionWith(h, ub, k) ==
  LET f == DspDistortion_Process(h.dist, clamp_s24(h.v), k.drive, ub)
  IN  [h EXCEPT !.dist = f.st, !.v = f.y, !.returned.Distortion = f.y]

FxDistortion(h, ub) == FxDistortionWith(h, ub, CtlNow)

FxCabSim(h) ==
  LET f == DspFilters_CabSim(h.cab, h.v)
  IN  [h EXCEPT !.cab = f.st, !.v = f.y, !.returned.CabSim = f.y]

DistStageWith(h, ub, k) ==
  IF HasBit(k.mask, APP_FX_BIT_DISTORTION)
    THEN FxCabSim(FxDistortionWith(h, ub, k))
    ELSE h

DistStage(h, ub) == DistStageWith(h, ub, CtlNow)

\* delay: wet sample, its two filters, the mix with the dry sample
FxDelayWith(h, k) ==
  LET f == DspDelay_Process(clamp_s24(h.v), h.delay_buf, h.delay, k.dfb)
  IN  [h EXCEPT !.delay_buf = f.buf, !.delay = f.st, !.w = f.y,
                !.returned.Delay = f.y]

FxDelay(h) == FxDelayWith(h, CtlNow)

FxDelayHpf(h) ==
  LET f == DspFilters_Hpf1(h.wet_hpf_delay, h.w, WET_HPF_R_Q15)
  IN  [h EXCEPT !.wet_hpf_delay = f.st, !.w = f.y,
                !.returned.WetHpfDelay = f.y]

FxDelayLpf(h) ==
  LET f == DspFilters_OnePole(h.w, h.wet_lpf_delay, WET_LPF_A_Q15)
  IN  [h EXCEPT !.wet_lpf_delay = f.st, !.w = f.y,
                !.returned.WetLpfDelay = f.y]

FxDelayMixWith(h, k) ==
  LET mix == DelayMixEff(k.mask, k.dmix)
  IN  [h EXCEPT !.v = mix_s24(clamp_s24(h.v), h.w, mix), !.mixed.Delay = mix]

FxDelayMix(h) == FxDelayMixWith(h, CtlNow)

\* a delay stage that runs whatever the mask
DelayStageUngated(h, k) ==
  FxDelayMixWith(FxDelayLpf(FxDelayHpf(FxDelayWith(h, k))), k)

DelayStageWith(h, k) ==
  IF HasBit(k.mask, APP_FX_BIT_DELAY)
    THEN FxDelayMixWith(FxDelayLpf(FxDelayHpf(FxDelayWith(h, k))), k)
    ELSE h

DelayStage(h) == DelayStageWith(h, CtlNow)

\* reverb: wet sample, its two filters, the mix with the dry sample
FxReverbWith(h, k) ==
  LET f == DspReverb_Process(clamp_s24(h.v), h.reverb, LfoStep(h.c),
                             k.damp, k.rfb)
  IN  [h EXCEPT !.reverb = f.st, !.w = f.y, !.returned.Reverb = f.y]

FxReverb(h) == FxReverbWith(h, CtlNow)

FxReverbHpf(h) ==
  LET f == DspFilters_Hpf1(h.wet_hpf_reverb, h.w, WET_HPF_R_Q15)
  IN  [h EXCEPT !.wet_hpf_reverb = f.st, !.w = f.y,
                !.returned.WetHpfReverb = f.y]

FxReverbLpf(h) ==
  LET f == DspFilters_OnePole(h.w, h.wet_lpf_reverb, WET_LPF_A_Q15)
  IN  [h EXCEPT !.wet_lpf_reverb = f.st, !.w = f.y,
                !.returned.WetLpfReverb = f.y]

FxReverbMixWith(h, k) ==
  LET mix == ReverbMixEff(k.mask, k.rmix)
  IN  [h EXCEPT !.v = mix_s24(clamp_s24(h.v), h.w, mix), !.mixed.Reverb = mix]

FxReverbMix(h) == FxReverbMixWith(h, CtlNow)

ReverbStageWith(h, k) ==
  IF HasBit(k.mask, APP_FX_BIT_REVERB)
    THEN FxReverbMixWith(FxReverbLpf(FxReverbHpf(FxReverbWith(h, k))), k)
    ELSE h

ReverbStage(h) == ReverbStageWith(h, CtlNow)

\* post-processing up to the master volume
PostMakeupWith(h, k) == [h EXCEPT !.v = gain_s32_q8(h.v, MakeupQ8(k.mask))]

PostMakeup(h) == PostMakeupWith(h, CtlNow)

PostMasterWith(h, k) == [h EXCEPT !.v = clamp_s24(MulShr(h.v, k.gain, 15))]

PostMaster(h) == PostMasterWith(h, CtlNow)

\* One channel of AppDsp_ProcessFrame up to the master volume: the new value
\* of each of the channel's state records, the value returned by each call
\* and, in v, the sample handed to the limiter.
ChanStagesWith(h, ub, k) ==
  PostMasterWith(PostMakeupWith(ReverbStageWith(DelayStageWith(DistStageWith(
    PreCompress(PreInputGain(PreCleanHpf(PreDcBlock(h)))),
    ub, k), k), k), k), k)

ChanChainWith(c, x, ub, k) == ChanStagesWith(ChanStart(c, x), ub, k)

ChanChain(c, x, ub) == ChanChainWith(c, x, ub, CtlNow)

\* what a call other than AppDsp_ProcessFrame leaves in ret
RetNone == [frame |-> FALSE]

\* the state and the outputs of a frame, from the two channels f and the
\* limiter's result lim
FrameCommitWith(f, lim, mask) ==
  /\ s_dc' = [c \in Chan |-> f[c].dc]
  /\ s_clean_hpf' = [c \in Chan |-> f[c].clean_hpf]
  /\ s_comp' = [c \in Chan |-> f[c].comp]
  /\ s_dist' = [c \in Chan |-> f[c].dist]
  /\ s_cab' = [c \in Chan |-> f[c].cab]
  /\ s_delay_buf' = [c \in Chan |-> f[c].delay_buf]
  /\ s_delay' = [c \in Chan |-> f[c].delay]
  /\ s_wet_hpf_delay' = [c \in Chan |-> f[c].wet_hpf_delay]
  /\ s_wet_lpf_delay' = [c \in Chan |-> f[c].wet_lpf_delay]
  /\ s_reverb' = [c \in Chan |-> f[c].reverb]
  /\ s_wet_hpf_reverb' = [c \in Chan |-> f[c].wet_hpf_reverb]
  /\ s_wet_lpf_reverb' = [c \in Chan |-> f[c].wet_lpf_reverb]
  /\ s_limiter' = lim.gain_q15
  /\ ret' = [frame    |-> TRUE,
             mask     |-> mask,
             returned |-> [c \in Chan |-> f[c].returned],
             mixed    |-> [c \in Chan |-> f[c].mixed],
             pre      |-> [c \in Chan |-> f[c].v],
             gain_q15 |-> lim.gain_q15,
             out      |-> [l |-> clamp_s24(lim.l), r |-> clamp_s24(lim.r)]]
  /\ UNCHANGED <<modeVars, paramVars>>

FrameCommit(f, lim) == FrameCommitWith(f, lim, s_fx_mask)

FrameLimiter(f) ==
  FrameCommit(f, DspFilters_Limiter(s_limiter, f["l"].v, f["r"].v))

AppDsp_ProcessFrame(l, r, ub) ==
  FrameLimiter([c \in Chan |-> ChanChain(c, IF c = "l" THEN l ELSE r, ub)])

(***************************************************************************)
(* audio/app_audio.c: the frame ring between the RX and the TX callback    *)
(***************************************************************************)
\* source: 256; the model runs with 2^AudioRingLog2 frames
AUDIO_RING_FRAMES == Pow2(AudioRingLog2)
AUDIO_RING_MASK == AUDIO_RING_FRAMES - 1
\* source: 64; the model fills AudioFramesPerHalf frames per half buffer
AUDIO_FRAMES_PER_HALF == AudioFramesPerHalf
\* tx_fill_half: step_base_q16 and step_limit
STEP_BASE_Q16 == 65536
STEP_LIMIT == 128

ring_fill_frames(w, r_int) == (w - r_int) % AUDIO_RING_FRAMES

\* the two halfwords of the left-justified 24-in-32 slot of a sample
s24_to_lj24in32(s24) ==
  LET x == clamp_s24(s24)
      u == x % 16777216
  IN <<u \div 256, (u % 256) * 256>>

\* no activation of tx_fill_half in progress; half is the half of the TX
\* buffer the last activation filled (the DMA alternates the two halves)
TxIdle(half) == [pc |-> "idle", half |-> half]

\* the statics of app_audio.c; AppAudio_Start leaves the same values.
\* s_ring_r_q16 is the uint32_t of the source: the specifications stop
\* long before it reaches 2^31.
AudioZero ==
  [ring_l |-> [i \in 0..AUDIO_RING_MASK |-> 0],
   ring_r |-> [i \in 0..AUDIO_RING_MASK |-> 0],
   w |-> 0, r_q16 |-> 0, underrun |-> 0, overflow |-> 0,
   fill_err_filt |-> 0,
   tx_buf |-> [f \in 0..(2 * AUDIO_FRAMES_PER_HALF - 1) |-> <<0, 0, 0, 0>>],
   tx |-> TxIdle(1)]

\* ring_push_frames_s24(l, r) on the statics a
ring_push_frames_s24(a, l, r) ==
  LET w == a.w
      r_int == a.r_q16 \div 65536
      fill == ring_fill_frames(w, r_int)
      drop == fill >= AUDIO_RING_FRAMES - 2
  IN [a EXCEPT !.r_q16 = IF drop THEN @ + 65536 ELSE @,
               !.overflow = IF drop THEN @ + 1 ELSE @,
               !.ring_l[w] = l,
               !.ring_r[w] = r,
               !.w = (w + 1) % AUDIO_RING_FRAMES]

\* tx_fill_half, up to the loop: the snapshot of the two indices, the
\* filtered fill error and the clamped step
tx_fill_begin(a, half_index) ==
  LET w_snapshot == a.w
      r_q16 == a.r_q16
      fill == ring_fill_frames(w_snapshot, r_q16 \div 65536)
      target == AUDIO_RING_FRAMES \div 2
      err == fill - target
      filt == a.fill_err_filt + ((err - a.fill_err_filt) \div 16)
      s0 == STEP_BASE_Q16 + filt
      s1 == IF s0 < STEP_BASE_Q16 - STEP_LIMIT
              THEN STEP_BASE_Q16 - STEP_LIMIT ELSE s0
      step_q16 == IF s1 > STEP_BASE_Q16 + STEP_LIMIT
                    THEN STEP_BASE_Q16 + STEP_LIMIT ELSE s1
  IN [a EXCEPT !.fill_err_filt = filt,
               !.tx = [pc |-> "loop", half |-> half_index,
                       w_snapshot |-> w_snapshot, r_q16 |-> r_q16,
                       step_q16 |-> step_q16, frame |-> 0]]

\* (int32_t)(((int64_t)d * (int64_t)frac) >> 16) for 0 <= frac < 2^16 and
\* |d| < 2^26: exact, arithmetic shift
InterpShr16(d, frac) ==
  LET dh == d \div 65536
      dl == d % 65536
      fh == frac \div 256
      fl == frac % 256
  IN dh * frac + ((dl * fh + ((dl * fl) \div 256)) \div 256)

\* what one iteration of the loop of tx_fill_half reads and computes
tx_fill_read(a) ==
  LET t == a.tx
      idx0 == (t.r_q16 \div 65536) % AUDIO_RING_FRAMES
      idx1 == (idx0 + 1) % AUDIO_RING_FRAMES
      frac == t.r_q16 % 65536
      have == ring_fill_frames(t.w_snapshot, t.r_q16 \div 65536)
      l0 == a.ring_l[idx0]
      l1 == a.ring_l[idx1]
      r0s == a.ring_r[idx0]
      r1s == a.ring_r[idx1]
  IN [have |-> have, idx0 |-> idx0, idx1 |-> idx1, frac |-> frac,
      read |-> have >= 2,
      l0 |-> l0, l1 |-> l1, r0s |-> r0s, r1s |-> r1s,
      l_out |-> IF have >= 2 THEN l0 + InterpShr16(l1 - l0, frac) ELSE 0,
      r_out |-> IF have >= 2 THEN r0s + InterpShr16(r1s - r0s, frac) ELSE 0]

\* one iteration of the loop of tx_fill_half
tx_fill_frame(a) ==
  LET t == a.tx
      rd == tx_fill_read(a)
      o == t.half * AUDIO_FRAMES_PER_HALF + t.frame
  IN [a EXCEPT !.underrun = IF rd.read THEN @ ELSE @ + 1,
               !.tx_buf[o] = s24_to_lj24in32(rd.l_out)
                               \o s24_to_lj24in32(rd.r_out),
               !.tx.r_q16 = @ + t.step_q16,
               !.tx.frame = @ + 1]

\* tx_fill_half after the loop: the read index is published
tx_fill_end(a) ==
  [a EXCEPT !.r_q16 = a.tx.r_q16, !.tx = TxIdle(a.tx.half)]

(***************************************************************************)
(* communication/app_com.c: the UART rings and the line buffer             *)
(***************************************************************************)
\* source: 512; the model runs with ComTxRingSize bytes
APP_COM_TX_RING_SIZE == ComTxRingSize
APP_COM_RX_RING_SIZE == 1024
APP_COM_LINE_MAX == 160
APP_COM_RX_DMA_SIZE == 512

\* bytes are one-character strings; the control characters have names
NUL == "NUL"
LF == "LF"
CR == "CR"
TAB == "TAB"
VT == "VT"
FF == "FF"

\* the characters of a string literal
Chars(s) == [i \in 1..Len(s) |-> SubSeq(s, i, i)]

\* a NULL char pointer (strtok found no token)
NULLP == <<"(null)">>

\* HAL_UART_Transmit_IT holds no transfer
HalTxIdle == [active |-> FALSE]

\* the statics of app_com.c before AppCom_Init; line holds the first
\* s_line_len characters of s_line, hal_tx the transfer the HAL was handed,
\* main the calls the main context still has to make in uart_send_line
ComZero ==
  [uart |-> "NULL", rx_mode |-> "BYTE",
   rx_ring |-> [i \in 0..(APP_COM_RX_RING_SIZE - 1) |-> NUL],
   rx_wr |-> 0, rx_rd |-> 0,
   line |-> <<>>, line_len |-> 0,
   tx_ring |-> [i \in 0..(APP_COM_TX_RING_SIZE - 1) |-> NUL],
   tx_wr |-> 0, tx_rd |-> 0, tx_busy |-> 0, tx_last_len |-> 0,
   hal_tx |-> HalTxIdle, main |-> <<>>]

ring_next(idx) == (idx + 1) % APP_COM_RX_RING_SIZE
tx_ring_next(idx) == (idx + 1) % APP_COM_TX_RING_SIZE

tx_ring_free(c) ==
  IF c.tx_wr >= c.tx_rd
    THEN (APP_COM_TX_RING_SIZE - (c.tx_wr - c.tx_rd)) - 1
    ELSE (c.tx_rd - c.tx_wr) - 1

\* HAL_UART_Transmit_IT returns HAL_OK when the UART holds no transfer and
\* the length is not 0, and then holds the pointer and the length
HalTxAccepts(c, len) == ~c.hal_tx.active /\ len > 0

\* tx_kick with a chunk length that is always the bytes up to the write
\* index, also when the queue wraps
tx_kick_no_wrap(c) ==
  IF c.uart = "NULL" \/ c.tx_busy # 0 \/ c.tx_rd = c.tx_wr THEN c
  ELSE LET rd == c.tx_rd
           len == (c.tx_wr - rd) % APP_COM_TX_RING_SIZE
       IN IF HalTxAccepts(c, len)
            THEN [c EXCEPT !.tx_busy = 1, !.tx_last_len = len,
                           !.hal_tx = [active |-> TRUE, ptr |-> rd,
                                       len |-> len, pos |-> 0]]
            ELSE [c EXCEPT !.tx_busy = 0, !.tx_last_len = 0]

tx_kick(c) ==
  IF c.uart = "NULL" \/ c.tx_busy # 0 \/ c.tx_rd = c.tx_wr THEN c
  ELSE LET rd == c.tx_rd
           wr == c.tx_wr
           len == IF wr > rd THEN wr - rd ELSE APP_COM_TX_RING_SIZE - rd
       IN IF HalTxAccepts(c, len)
            THEN [c EXCEPT !.tx_busy = 1, !.tx_last_len = len,
                           !.hal_tx = [active |-> TRUE, ptr |-> rd,
                                       len |-> len, pos |-> 0]]
            ELSE [c EXCEPT !.tx_busy = 0, !.tx_last_len = 0]

\* TRUE iff tx_enqueue_bytes stores data (it returns early otherwise)
TxAccepts(c, data) ==
  c.uart # "NULL" /\ Len(data) > 0 /\ tx_ring_free(c) >= Len(data)

\* the critical section of tx_enqueue_bytes
tx_enqueue_store(c, data) ==
  IF ~TxAccepts(c, data) THEN c
  ELSE [c EXCEPT
         !.tx_ring = [i \in 0..(APP_COM_TX_RING_SIZE - 1) |->
                        LET k == (i - c.tx_wr) % APP_COM_TX_RING_SIZE
                        IN IF k < Len(data) THEN data[k + 1]
                           ELSE c.tx_ring[i]],
         !.tx_wr = (c.tx_wr + Len(data)) % APP_COM_TX_RING_SIZE]

tx_enqueue_bytes(c, data) ==
  IF ~TxAccepts(c, data) THEN c ELSE tx_kick(tx_enqueue_store(c, data))

uart_send_line(c, line) ==
  IF c.uart = "NULL" THEN c
  ELSE tx_enqueue_bytes(tx_enqueue_bytes(c, line), <<LF>>)

\* AppCom_OnUartTxCplt, called by the HAL when the transfer it held is done
AppCom_OnUartTxCplt(c) ==
  IF c.uart = "NULL" THEN c
  ELSE LET sent == c.tx_last_len
       IN tx_kick([c EXCEPT
                    !.tx_rd = IF sent > 0
                                THEN (@ + sent) % APP_COM_TX_RING_SIZE
                                ELSE @,
                    !.tx_last_len = 0,
                    !.tx_busy = 0])

\* the receive mode AppCom_OnUartError leaves: the restart of the mode in
\* use may fail and degrade it
RxModeAfterError(mode, dma_ok, it_ok) ==
  IF mode = "IDLE_DMA" /\ dma_ok THEN "IDLE_DMA"
  ELSE IF mode \in {"IDLE_DMA", "IDLE_IT"} /\ it_ok THEN "IDLE_IT"
  ELSE "BYTE"

\* AppCom_OnUartError: HAL_UART_AbortTransmit_IT drops the transfer the
\* HAL held
AppCom_OnUartError(c, dma_ok, it_ok) ==
  IF c.uart = "NULL" THEN c
  ELSE tx_kick([c EXCEPT !.rx_mode = RxModeAfterError(@, dma_ok, it_ok),
                         !.hal_tx = HalTxIdle,
                         !.tx_busy = 0])

\* the receive mode AppCom_Init selects
RxModeAtInit(hdmarx, dma_ok, it_ok) ==
  IF hdmarx /\ dma_ok THEN "IDLE_DMA"
  ELSE IF it_ok THEN "IDLE_IT"
  ELSE "BYTE"

\* AppCom_Init(huart) with huart != NULL, up to the READY line
AppCom_Init(c, hdmarx, dma_ok, it_ok) ==
  [c EXCEPT !.uart = "huart", !.rx_wr = 0, !.rx_rd = 0,
            !.line = <<>>, !.line_len = 0,
            !.tx_wr = 0, !.tx_rd = 0, !.tx_busy = 0, !.tx_last_len = 0,
            !.rx_mode = RxModeAtInit(hdmarx, dma_ok, it_ok)]

\* one received byte stored in the RX ring, or dropped when it is full
rx_store(c, b) ==
  LET next == ring_next(c.rx_wr)
  IN IF next # c.rx_rd
       THEN [c EXCEPT !.rx_ring[c.rx_wr] = b, !.rx_wr = next]
       ELSE c

AppCom_OnUartRxCplt(c, rx_byte) ==
  IF c.uart = "NULL" \/ c.rx_mode # "BYTE" THEN c ELSE rx_store(c, rx_byte)

\* the loop over the received bytes: rx_store for each of them in turn.
\* s_rx_rd does not move during the loop, so the bytes stored are the first
\* ones, as many as the ring has room for, and the others are dropped
rx_store_all(c, bytes) ==
  IF Len(bytes) = 1 THEN rx_store(c, bytes[1])
  ELSE LET free == (c.rx_rd - c.rx_wr - 1) % APP_COM_RX_RING_SIZE
           m == IF Len(bytes) < free THEN Len(bytes) ELSE free
           at(i) == (i - c.rx_wr) % APP_COM_RX_RING_SIZE
       IN [c EXCEPT
            !.rx_ring = [i \in 0..(APP_COM_RX_RING_SIZE - 1) |->
                           IF at(i) < m THEN bytes[at(i) + 1] ELSE @[i]],
            !.rx_wr = (@ + m) % APP_COM_RX_RING_SIZE]

\* AppCom_OnUartRxEvent(huart, size) with the size first bytes of s_rx_dma
AppCom_OnUartRxEvent(c, rx_dma) ==
  IF c.uart = "NULL" \/ c.rx_mode = "BYTE" THEN c
  ELSE LET n == IF Len(rx_dma) > APP_COM_RX_DMA_SIZE
                  THEN APP_COM_RX_DMA_SIZE ELSE Len(rx_dma)
       IN rx_store_all(c, SubSeq(rx_dma, 1, n))

(***************************************************************************)
(* communication/app_com.c: the command lines                              *)
(***************************************************************************)
isspace(ch) == ch \in {" ", TAB, LF, VT, FF, CR}
isdigit(ch) == ch \in {"0", "1", "2", "3", "4", "5", "6", "7", "8", "9"}
DigitVal(ch) == CHOOSE d \in 0..9 : SubSeq("0123456789", d + 1, d + 1) = ch
DigitChar(d) == SubSeq("0123456789", d + 1, d + 1)

SetMin(S) == CHOOSE i \in S : \A j \in S : i <= j
SetMax(S) == CHOOSE i \in S : \A j \in S : i >= j

\* the C string a buffer holds: the characters before the first NUL
CStr(buf) ==
  LET z == {i \in 1..Len(buf) : buf[i] = NUL}
  IN IF z = {} THEN buf ELSE SubSeq(buf, 1, SetMin(z) - 1)

\* snprintf(buf, size, ...): at most size - 1 characters of the text
snprintf(size, text) ==
  IF Len(text) > size - 1 THEN SubSeq(text, 1, size - 1) ELSE text

trim_inplace(s) ==
  LET keep == {i \in 1..Len(s) : ~isspace(s[i])}
  IN IF keep = {} THEN <<>> ELSE SubSeq(s, SetMin(keep), SetMax(keep))

\* the k-th token strtok(..., " \t") returns for the string s, or NULL
strtok(s, k) ==
  LET delim(i) == s[i] \in {" ", TAB}
      starts == {i \in 1..Len(s) : ~delim(i) /\ (i = 1 \/ delim(i - 1))}
  IN IF Cardinality(starts) < k THEN NULLP
     ELSE LET i == CHOOSE a \in starts :
                     Cardinality({b \in starts : b < a}) = k - 1
              e == SetMin({j \in i..Len(s) : delim(j)} \cup {Len(s) + 1})
          IN SubSeq(s, i, e - 1)

\* what strtoul and strtol convert: after leading white space and an
\* optional sign, the leading decimal digits
NumBody(s) ==
  LET ns == {i \in 1..Len(s) : ~isspace(s[i])}
      i0 == IF ns = {} THEN Len(s) + 1 ELSE SetMin(ns)
      signed == i0 <= Len(s) /\ s[i0] \in {"+", "-"}
      i1 == IF signed THEN i0 + 1 ELSE i0
      nd == {j \in i1..Len(s) : ~isdigit(s[j])}
      i2 == IF nd = {} THEN Len(s) ELSE SetMin(nd) - 1
  IN [neg |-> signed /\ s[i0] = "-",
      digits |-> IF i2 < i1 THEN <<>> ELSE SubSeq(s, i1, i2)]

\* the value of a digit string in an unsigned long (32 bits), and whether
\* it overflowed
RECURSIVE U32OfDigits(_, _)
U32OfDigits(digs, acc) ==
  IF digs = <<>> THEN acc
  ELSE LET d == DigitVal(Head(digs))
           lo == acc.v[2] * 10 + d
           hi == acc.v[1] * 10 + (lo \div 65536)
       IN U32OfDigits(Tail(digs),
                      [v |-> U32(hi % 65536, lo % 65536),
                       ovf |-> acc.ovf \/ hi >= 65536])

\* parse_u32(s, &out): strtoul(s, &end, 10) with end != s
parse_u32(s) ==
  IF s = NULLP THEN [ok |-> FALSE, v |-> U32Zero]
  ELSE LET b == NumBody(s)
           a == U32OfDigits(b.digits, [v |-> U32Zero, ovf |-> FALSE])
       IN [ok |-> b.digits # <<>>,
           v |-> IF a.ovf THEN U32(65535, 65535)
                 ELSE IF b.neg THEN U32Sub(U32Zero, a.v)
                 ELSE a.v]

\* minus the value of a digit string, down to LONG_MIN (32 bits), and
\* whether it went below
RECURSIVE NegOfDigits(_, _)
NegOfDigits(digs, acc) ==
  IF digs = <<>> THEN acc
  ELSE LET d == DigitVal(Head(digs))
           o == acc.ovf \/ acc.v < (INT32_MIN + d + 9) \div 10
       IN NegOfDigits(Tail(digs),
                      [v |-> IF o THEN 0 ELSE acc.v * 10 - d, ovf |-> o])

\* parse_i32(s, &out): strtol(s, &end, 10) with end != s
parse_i32(s) ==
  IF s = NULLP THEN [ok |-> FALSE, v |-> 0]
  ELSE LET b == NumBody(s)
           a == NegOfDigits(b.digits, [v |-> 0, ovf |-> FALSE])
       IN [ok |-> b.digits # <<>>,
           v |-> IF a.ovf THEN (IF b.neg THEN INT32_MIN ELSE INT32_MAX)
                 ELSE IF b.neg THEN a.v
                 ELSE IF a.v = INT32_MIN THEN INT32_MAX
                 ELSE -a.v]

map_param(name) ==
  IF name = Chars("dist_drive_q8")
    THEN [ok |-> TRUE, id |-> APP_DSP_PARAM_DIST_DRIVE_Q8]
  ELSE IF name = Chars("gain_q15")
    THEN [ok |-> TRUE, id |-> APP_DSP_PARAM_GAIN_Q15]
  ELSE IF name = Chars("delay_mix_q15")
    THEN [ok |-> TRUE, id |-> APP_DSP_PARAM_DELAY_MIX_Q15]
  ELSE IF name = Chars("delay_feedback_q15")
    THEN [ok |-> TRUE, id |-> APP_DSP_PARAM_DELAY_FEEDBACK_Q15]
  ELSE IF name = Chars("reverb_mix_q15")
    THEN [ok |-> TRUE, id |-> APP_DSP_PARAM_REVERB_MIX_Q15]
  ELSE IF name = Chars("reverb_feedback_q15")
    THEN [ok |-> TRUE, id |-> APP_DSP_PARAM_REVERB_FEEDBACK_Q15]
  ELSE IF name = Chars("reverb_damp_q15")
    THEN [ok |-> TRUE, id |-> APP_DSP_PARAM_REVERB_DAMP_Q15]
  ELSE [ok |-> FALSE, id |-> 0]

\* printf conversions: %lu of a uint32_t, %ld of an int32_t, %s of a
\* pointer that is replaced by "?" when it is NULL
RECURSIVE FmtLu(_)
FmtLu(u) ==
  LET t == (u[1] % 10) * 65536 + u[2]
      q == U32((u[1] \div 10) + ((t \div 10) \div 65536), (t \div 10) % 65536)
  IN IF q = U32Zero THEN <<DigitChar(t % 10)>>
     ELSE FmtLu(q) \o <<DigitChar(t % 10)>>

FmtLd(v) == Chars(ToString(v))
FmtStrOrQuestion(p) == IF p = NULLP THEN Chars("?") ELSE p

\* the reply of the STATUS command
StatusLine ==
  Chars("STATUS FXMASK=") \o FmtLu(U32(0, AppDsp_GetFxMask))
  \o Chars(" dist_drive_q8=")
  \o FmtLd(AppDsp_GetParam(APP_DSP_PARAM_DIST_DRIVE_Q8))
  \o Chars(" gain_q15=") \o FmtLd(AppDsp_GetParam(APP_DSP_PARAM_GAIN_Q15))
  \o Chars(" delay_mix_q15=")
  \o FmtLd(AppDsp_GetParam(APP_DSP_PARAM_DELAY_MIX_Q15))
  \o Chars(" delay_feedback_q15=")
  \o FmtLd(AppDsp_GetParam(APP_DSP_PARAM_DELAY_FEEDBACK_Q15))
  \o Chars(" reverb_mix_q15=")
  \o FmtLd(AppDsp_GetParam(APP_DSP_PARAM_REVERB_MIX_Q15))
  \o Chars(" reverb_feedback_q15=")
  \o FmtLd(AppDsp_GetParam(APP_DSP_PARAM_REVERB_FEEDBACK_Q15))
  \o Chars(" reverb_damp_q15=")
  \o FmtLd(AppDsp_GetParam(APP_DSP_PARAM_REVERB_DAMP_Q15))

\* what handle_line does with a line: the setter it calls, if any, and
\* the reply it sends, if any
NoCommand == [set |-> "none", mask |-> U32Zero, id |-> 0, v |-> 0,
              reply |-> <<>>]
ReplyOnly(text) == [NoCommand EXCEPT !.reply = <<text>>]

handle_line(buf) ==
  LET line == trim_inplace(CStr(buf))
      line_copy == snprintf(APP_COM_LINE_MAX, line)
      cmd == strtok(line, 1)
  IN IF line = <<>> \/ cmd = NULLP THEN NoCommand
     ELSE IF cmd = Chars("PING") THEN ReplyOnly(Chars("PONG"))
     ELSE IF cmd = Chars("STATUS") THEN ReplyOnly(snprintf(200, StatusLine))
     ELSE IF cmd = Chars("FXMASK") THEN
       LET p == parse_u32(strtok(line, 2))
       IN IF ~p.ok THEN ReplyOnly(Chars("ERR FXMASK"))
          ELSE [NoCommand EXCEPT
                 !.set = "fxmask", !.mask = p.v,
                 !.reply = <<snprintf(48, Chars("OK FXMASK ")
                                            \o FmtLu(p.v))>>]
     ELSE IF cmd = Chars("PSET") THEN
       LET pname == strtok(line, 2)
           pval == strtok(line, 3)
           id == map_param(pname)
           v == parse_i32(pval)
       IN IF ~id.ok \/ ~v.ok
            THEN ReplyOnly(snprintf(160,
                   Chars("ERR PSET name=") \o FmtStrOrQuestion(pname)
                   \o Chars(" val=") \o FmtStrOrQuestion(pval)))
            ELSE [NoCommand EXCEPT
                   !.set = "pset", !.id = id.id, !.v = v.v,
                   !.reply = <<snprintf(96, Chars("OK PSET ") \o pname
                                             \o Chars(" ") \o FmtLd(v.v))>>]
     ELSE ReplyOnly(snprintf(160, Chars("ERR UNKNOWN cmd=") \o cmd
                                    \o Chars(" line=") \o line_copy))

\* one byte of the line in the loop of AppCom_Poll: a carriage return is
\* skipped, a character is kept while the buffer has room for it and its
\* terminator, and the index goes back to 0 when it has not
poll_byte(c, b) ==
  IF b = CR THEN c
  ELSE IF c.line_len + 1 < APP_COM_LINE_MAX
    THEN [c EXCEPT !.line = Append(@, b), !.line_len = @ + 1]
  ELSE [c EXCEPT !.line = <<>>, !.line_len = 0]

IsNotCR(b) == b # CR

\* the loop of AppCom_Poll over bytes that are no newline: poll_byte for
\* each of them in turn.  The index counts the characters up to
\* APP_COM_LINE_MAX - 1 and the character that finds it there sets it to 0,
\* so after t characters it is t % APP_COM_LINE_MAX and the buffer holds the
\* last that many of them
poll_bytes(c, bytes) ==
  IF bytes = <<>> THEN c
  ELSE IF Len(bytes) = 1
    THEN poll_byte([c EXCEPT !.rx_rd = ring_next(@)], bytes[1])
  ELSE LET all == c.line \o SelectSeq(bytes, IsNotCR)
           len == Len(all) % APP_COM_LINE_MAX
       IN [c EXCEPT !.rx_rd = (@ + Len(bytes)) % APP_COM_RX_RING_SIZE,
                    !.line = SubSeq(all, Len(all) - len + 1, Len(all)),
                    !.line_len = len]

\* AppCom_Poll up to its next call of handle_line or to the end of the
\* loop: the state it leaves, the buffer it hands to handle_line, if it
\* does, and the bytes it took from the RX ring
AppCom_Poll(c) ==
  LET n == (c.rx_wr - c.rx_rd) % APP_COM_RX_RING_SIZE
      avail == [i \in 1..n |->
                 c.rx_ring[(c.rx_rd + i - 1) % APP_COM_RX_RING_SIZE]]
      nl == {i \in 1..n : avail[i] = LF}
  IN IF nl = {}
       THEN [c |-> poll_bytes(c, avail), handled |-> <<>>, read |-> avail]
     ELSE LET k == SetMin(nl)
              c1 == poll_bytes(c, SubSeq(avail, 1, k - 1))
          IN [c |-> [c1 EXCEPT !.rx_rd = ring_next(@), !.line = <<>>,
                               !.line_len = 0],
              handled |-> <<Append(c1.line, NUL)>>,
              read |-> SubSeq(avail, 1, k)]

(***************************************************************************)
(* State after construction: the static initialisers                       *)
(***************************************************************************)
DspStatics ==
  /\ s_mode = APP_FX_MODE_BYPASS
  /\ s_button_last_ms = U32Zero
  /\ s_fx_mask = 0
  /\ s_gain_q15 = GAIN_UNITY_Q15
  /\ s_dist_drive_q8 = DIST_DRIVE_DEFAULT_Q8
  /\ s_dist = [c \in Chan |-> DistZero]
  /\ s_delay_mix_q15 = DELAY_MIX_Q15
  /\ s_delay_feedback_q15 = DELAY_FEEDBACK_Q15
  /\ s_delay_buf = [c \in Chan |-> DelayBufZero]
  /\ s_delay = [c \in Chan |-> DelayZero]
  /\ s_reverb_mix_q15 = REVERB_MIX_Q15
  /\ s_reverb_feedback_q15 = REVERB_FEEDBACK_Q15
  /\ s_reverb_damp_q15 = REVERB_DAMP_Q15
  /\ s_reverb = [c \in Chan |-> ReverbZero]
  /\ s_limiter = 32768
  /\ s_dc = [c \in Chan |-> DcZero]
  /\ s_clean_hpf = [c \in Chan |-> DcZero]
  /\ s_wet_hpf_delay = [c \in Chan |-> DcZero]
  /\ s_wet_hpf_reverb = [c \in Chan |-> DcZero]
  /\ s_comp = [c \in Chan |-> CompZero]
  /\ s_cab = [c \in Chan |-> BiquadZero]
  /\ s_wet_lpf_delay = [c \in Chan |-> 0]
  /\ s_wet_lpf_reverb = [c \in Chan |-> 0]

ProgInit ==
  /\ DspStatics
  /\ s_audio = AudioZero
  /\ s_com = ComZero

Init ==
  /\ ProgInit
  /\ call = [op |-> "boot"]
  /\ hist = <<>>
  /\ ret = RetNone
  /\ steps = 0
  /\ fx_sel = "none"

\* the parameter table as a function of the identifier
Params == [id \in 0..6 |-> AppDsp_GetParam(id)]

(***************************************************************************)
(* The calls of the control collaborator and of the audio transport, each  *)
(* with the record of the call                                             *)
(***************************************************************************)
CallInit ==
  /\ AppDsp_Init
  /\ call' = [op |-> "Init"]
  /\ hist' = <<>>
  /\ ret' = RetNone
  /\ steps' = steps + 1
  /\ UNCHANGED <<fx_sel, ioVars>>

CallOnButtonPress(now_ms) ==
  /\ AppDsp_OnButtonPress(now_ms)
  /\ call' = [op |-> "OnButtonPress", now |-> now_ms, mode |-> s_mode,
              mask |-> s_fx_mask, last |-> s_button_last_ms]
  /\ hist' = Append(hist, [op |-> "OnButtonPress", now |-> now_ms,
                           last |-> s_button_last_ms,
                           from |-> s_mode, to |-> s_mode',
                           changed |-> s_mode' # s_mode])
  /\ ret' = RetNone
  /\ steps' = steps + 1
  /\ UNCHANGED <<fx_sel, ioVars>>

CallSetFxMask(mask) ==
  /\ AppDsp_SetFxMask(mask)
  /\ call' = [op |-> "SetFxMask", arg |-> mask]
  /\ hist' = Append(hist, [op |-> "SetFxMask"])
  /\ ret' = RetNone
  /\ steps' = steps + 1
  /\ UNCHANGED <<fx_sel, ioVars>>

CallSetParam(id, value) ==
  /\ AppDsp_SetParam(id, value)
  /\ call' = [op |-> "SetParam", id |-> id, value |-> value, old |-> Params]
  /\ ret' = RetNone
  /\ steps' = steps + 1
  /\ UNCHANGED <<hist, fx_sel, ioVars>>

CallProcessFrame(l, r, ub) ==
  /\ AppDsp_ProcessFrame(l, r, ub)
  /\ call' = [op |-> "ProcessFrame", l |-> l, r |-> r]
  /\ steps' = steps + 1
  /\ UNCHANGED <<hist, fx_sel, ioVars>>

(***************************************************************************)
(* Inputs                                                                  *)
(***************************************************************************)
SampleInputs == {S24_MIN, 0, S24_MAX}
FrameInputs == {<<0, 0>>, <<S24_MAX, S24_MAX>>, <<S24_MIN, S24_MAX>>,
                <<S24_MAX, 0>>}
MaskValues == {U32(0, m) : m \in 0..7}
MaskInputs == MaskValues \cup {U32(0, 8), U32(1, 0), U32(65535, 65535)}
ParamIds == 0..6
ParamIdInputs == 0..7
ParamExtremes == {-1, INT32_MAX}
ParamInputs == {INT32_MIN, -1, 0, 12345, 32769, 65537, 131073, INT32_MAX}
BaseTimes == {U32(0, 0), U32(0, 100), U32(0, 300), U32(65535, 65436)}
TimeOffsets == {U32(0, 0), U32(0, 299), U32(0, 300)}
ButtonTimes == {U32Add(t, d) : t \in BaseTimes, d \in TimeOffsets}
FewTimes == {U32(0, 300)}

(***************************************************************************)
(* Spec: the orchestrator with all of its calls                            *)
(***************************************************************************)
Next ==
  \/ steps < MaxSteps /\ CallInit
  \/ \E now_ms \in FewTimes :
       steps < MaxSteps /\ CallOnButtonPress(now_ms)
  \/ \E mask \in MaskValues :
       steps < MaxSteps /\ CallSetFxMask(mask)
  \/ \E id \in ParamIds, value \in ParamExtremes :
       steps < MaxSteps /\ CallSetParam(id, value)
  \/ \E f \in FrameInputs, ub \in UbOutcomes :
       steps < MaxSteps /\ CallProcessFrame(f[1], f[2], ub)

Spec == Init /\ [][Next]_vars

\* the documented default of each parameter, by identifier
DocumentedDefault == [id \in 0..6 |->
  <<40960, 11469, 16384, 9830, 22000, 8192, 32768>>[id + 1]]

\* all filter, delay and reverb state as the initialisation leaves it
StateZeroed ==
  /\ s_dc = [c \in Chan |-> DcZero]
  /\ s_clean_hpf = [c \in Chan |-> DcZero]
  /\ s_wet_hpf_delay = [c \in Chan |-> DcZero]
  /\ s_wet_hpf_reverb = [c \in Chan |-> DcZero]
  /\ s_comp = [c \in Chan |-> CompZero]
  /\ s_cab = [c \in Chan |-> BiquadZero]
  /\ s_wet_lpf_delay = [c \in Chan |-> 0]
  /\ s_wet_lpf_reverb = [c \in Chan |-> 0]
  /\ s_limiter = 32768
  /\ s_dist = [c \in Chan |-> DistZero]
  /\ s_delay_buf = [c \in Chan |-> DelayBufZero]
  /\ s_delay = [c \in Chan |-> DelayZero]
  /\ s_reverb = [c \in Chan |-> ReverbZero]

\* C2: after AppDsp_Init, called in any reachable state, all filter, delay
\* and reverb state is zero, the mask is 0, the mode is bypass and every
\* parameter reads as its documented default (drive 40960, delay mix 11469,
\* delay feedback 16384, reverb mix 9830, reverb feedback 22000, reverb damp
\* 8192, master gain 32768).
C2_InitResetsStateAndParameters ==
  call.op = "Init" =>
    /\ StateZeroed
    /\ AppDsp_GetFxMask = 0
    /\ AppDsp_GetMode = APP_FX_MODE_BYPASS
    /\ \A id \in ParamIds : AppDsp_GetParam(id) = DocumentedDefault[id]

\* |x|
Magnitude(x) == IF x < 0 THEN -x ELSE x

\* the larger of the magnitudes of the two samples handed to the limiter
PreLimiterPeak ==
  IF Magnitude(ret.pre["l"]) > Magnitude(ret.pre["r"])
    THEN Magnitude(ret.pre["l"]) ELSE Magnitude(ret.pre["r"])

\* g <= floor(6500000 * 32768 / peak), i.e. g * peak <= 6500000 * 32768,
\* for 0 <= g <= 32768 and 0 < peak <= 2^23, without a product above 2^31
GainAtMostThresholdOverPeak(g, peak) ==
  LET ph   == peak \div 32768
      pl   == peak % 32768
      rest == 6500000 - g * ph
  IN  /\ rest >= 0
      /\ (rest >= 32768 \/ rest * 32768 >= g * pl)

\* C3: in a frame whose pre-limiter peak max(|l|,|r|) exceeds 6,500,000 the
\* gain applied in that frame is at most floor(6,500,000*32768/peak), and
\* both outputs of AppDsp_ProcessFrame have magnitude <= 6,500,000 in every
\* frame.
C3_LimiterAttacksWithinTheFrame ==
  ret.frame =>
    /\ PreLimiterPeak > 6500000 =>
         GainAtMostThresholdOverPeak(ret.gain_q15, PreLimiterPeak)
    /\ Magnitude(ret.out.l) <= 6500000
    /\ Magnitude(ret.out.r) <= 6500000

\* C3 witness: a frame whose pre-limiter peak is the full scale of the left
\* channel, with the gain reduced in that frame and the left output held
\* just below the threshold
C3_Witness ==
  /\ ret.frame
  /\ ret.pre["l"] = S24_MAX
  /\ PreLimiterPeak = S24_MAX
  /\ ret.gain_q15 < 32768
  /\ ret.out.l > 6400000 /\ ret.out.l <= 6500000

\* C22: the limiter is stereo-linked: there is a single gain value, always in
\* [0,32768], computed from max(|l|,|r|); in every frame both channels are
\* multiplied by that same gain, so a peak on one channel reduces the other
\* channel by the same factor in the same frame.
C22_LimiterIsStereoLinked ==
  /\ s_limiter \in 0..32768
  /\ ret.frame =>
       /\ ret.gain_q15 = s_limiter
       /\ s_limiter <= LimiterTarget(PreLimiterPeak)
       /\ \A c \in Chan :
            ret.out[c] = clamp_s24(MulShr(ret.pre[c], s_limiter, 15))

\* C22 witness: a full-scale left sample beside a right sample below the
\* threshold: the gain is the one the left peak asks for and the right sample
\* left the limiter reduced by it
C22_Witness ==
  /\ ret.frame
  /\ ret.pre["l"] = S24_MAX
  /\ Magnitude(ret.pre["r"]) \in 1..AUDIO_LIMITER_THRESH_S24
  /\ s_limiter = LimiterTarget(S24_MAX) /\ s_limiter < 32768
  /\ Magnitude(ret.out["r"]) < Magnitude(ret.pre["r"])
  /\ ret.out["r"] = MulShr(ret.pre["r"], s_limiter, 15)

\* TRUE iff x is in the signed 24-bit range
InS24(x) == -8388608 <= x /\ x <= 8388607

NextParam ==
  \/ steps < MaxParamOps /\ CallInit
  \/ \E id \in ParamIdInputs, value \in ParamInputs :
       steps < MaxParamOps /\ CallSetParam(id, value)

SpecParam == Init /\ [][NextParam]_vars

\* upper end of the range of a parameter
ParamRangeMax(id) ==
  IF id = APP_DSP_PARAM_DIST_DRIVE_Q8 THEN 131072
  ELSE IF id = APP_DSP_PARAM_GAIN_Q15 THEN 65536
  ELSE 32768

\* v clamped into [0, hi]
ClampedInto(v, hi) == IF v < 0 THEN 0 ELSE IF v > hi THEN hi ELSE v

NextModeOps ==
  \/ steps < MaxModeOps /\ CallInit
  \/ \E now_ms \in ButtonTimes :
       steps < MaxModeOps /\ CallOnButtonPress(now_ms)
  \/ \E mask \in MaskInputs :
       steps < MaxModeOps /\ CallSetFxMask(mask)

SpecMode == Init /\ [][NextModeOps]_vars

\* C16: after any non-interleaved sequence of AppDsp_Init, AppDsp_SetFxMask
\* (any 32-bit value) and AppDsp_OnButtonPress (any timestamp) calls the
\* stored mask has only the three defined bits (SetFxMask stores value & 7)
\* and the mode is the closest legacy mode of the mask: bypass iff mask = 0,
\* distortion / reverb / delay iff the mask is exactly that bit, all iff two
\* or more bits are set.
C16_ModeIsLegacyModeOfMask ==
  /\ s_fx_mask \in 0..7
  /\ call.op = "SetFxMask" => s_fx_mask = call.arg[2] % 8
  /\ s_mode \in 0..4
  /\ (s_mode = APP_FX_MODE_BYPASS) <=> (s_fx_mask = 0)
  /\ (s_mode = APP_FX_MODE_DISTORTION) <=> (s_fx_mask = APP_FX_BIT_DISTORTION)
  /\ (s_mode = APP_FX_MODE_REVERB) <=> (s_fx_mask = APP_FX_BIT_REVERB)
  /\ (s_mode = APP_FX_MODE_DELAY) <=> (s_fx_mask = APP_FX_BIT_DELAY)
  /\ (s_mode = APP_FX_MODE_ALL) <=> (s_fx_mask \in {3, 5, 6, 7})

\* C16 witness: two masks were set, the second one of two effects (mode all),
\* and an accepted press then took the mode to bypass and the mask to 0
C16_Witness ==
  /\ Len(hist) = 3
  /\ hist[1].op = "SetFxMask" /\ hist[2].op = "SetFxMask"
  /\ call.op = "OnButtonPress"
  /\ call.mask = 3 /\ call.mode = APP_FX_MODE_ALL
  /\ hist[3].changed
  /\ s_mode = APP_FX_MODE_BYPASS /\ s_fx_mask = 0

(***************************************************************************)
(* SpecCycle: longer runs of the mode/mask interface over few inputs       *)
(***************************************************************************)
LegacyMaskInputs == {U32(0, m) : m \in {0, 1, 2, 4, 7}}
CycleTimes == {U32(0, 300), U32(0, 600)}

NextCycle ==
  \/ \E now_ms \in CycleTimes :
       steps < MaxCycleOps /\ CallOnButtonPress(now_ms)
  \/ \E mask \in LegacyMaskInputs :
       steps < MaxCycleOps /\ CallSetFxMask(mask)

SpecCycle == Init /\ [][NextCycle]_vars

\* the mask of each legacy mode: bypass, distortion, reverb, delay, all
MaskFor == [m \in 0..4 |-> <<0, 1, 2, 4, 7>>[m + 1]]

\* the successor of a mode in bypass -> distortion -> reverb -> delay -> all
\* -> bypass
Successor(m) == (m + 1) % 5

\* C7: AppDsp_SetFxMask(maskFor(m)) for a legacy mode m, from any state,
\* makes AppDsp_GetMode return m and AppDsp_GetFxMask return maskFor(m).
C7_SetMaskOfModeGivesMode ==
  \A m \in 0..4 :
    (call.op = "SetFxMask" /\ call.arg = U32(0, MaskFor[m])) =>
      (AppDsp_GetMode = m /\ AppDsp_GetFxMask = MaskFor[m])

\* C7 witness: after an accepted press (mode distortion) and a mask of two
\* effects (mode all), the mask of the delay mode was set and the mode is
\* delay
C7_Witness ==
  /\ Len(hist) = 3
  /\ hist[1].op = "OnButtonPress" /\ hist[1].changed
  /\ hist[2].op = "SetFxMask"
  /\ call.op = "SetFxMask" /\ call.arg = U32(0, 4)
  /\ AppDsp_GetMode = APP_FX_MODE_DELAY
  /\ AppDsp_GetFxMask = 4

\* TRUE iff now is less than 300 ms after last on the 32-bit millisecond
\* counter, i.e. (now - last) mod 2^32 < 300
WithinWindow(now, last) ==
  \E k \in 0..299 : U32Add(last, U32(0, k)) = now

\* the presses at the end of hist, back to the last call that was no press
RECURSIVE TrailingPresses(_)
TrailingPresses(h) ==
  IF h = <<>> \/ h[Len(h)].op # "OnButtonPress" THEN <<>>
  ELSE Append(TrailingPresses(SubSeq(h, 1, Len(h) - 1)), h[Len(h)])

\* the accepted (non-debounced) presses of a sequence of presses
Accepted(h) == SelectSeq(h, LAMBDA e : ~WithinWindow(e.now, e.last))

\* C8: an accepted AppDsp_OnButtonPress moves the mode to its successor in
\* the cycle and sets the mask to the mask of the new mode; five accepted
\* presses in a row (with rejected ones anywhere between) lead from a mode
\* back to that mode.
C8_AcceptedPressAdvancesCycle ==
  /\ (call.op = "OnButtonPress" /\ ~WithinWindow(call.now, call.last)) =>
       /\ AppDsp_GetMode = Successor(call.mode)
       /\ AppDsp_GetFxMask = MaskFor[AppDsp_GetMode]
  /\ LET acc == Accepted(TrailingPresses(hist))
     IN  Len(acc) >= 5 => acc[Len(acc)].to = acc[Len(acc) - 4].from

\* C8 witness: six presses since construction, one of them rejected, the
\* five accepted ones leading from bypass through all the modes to bypass
C8_Witness ==
  /\ call.op = "OnButtonPress"
  /\ Len(TrailingPresses(hist)) = 6
  /\ Len(Accepted(TrailingPresses(hist))) = 5
  /\ hist[1].from = APP_FX_MODE_BYPASS
  /\ hist[5].to = APP_FX_MODE_ALL
  /\ AppDsp_GetMode = APP_FX_MODE_BYPASS
  /\ AppDsp_GetFxMask = 0

\* number of mode changes recorded in a sequence of presses
ModeChanges(h) == Len(SelectSeq(h, LAMBDA e : e.changed))

\* C9: from a freshly initialised orchestrator, for every timestamp t, the
\* presses at t and t+299 produce exactly one mode change and the presses
\* at t and t+300 produce exactly two.
C9_TwoPressesFromFreshInit ==
  (Len(hist) = 2 /\ Len(TrailingPresses(hist)) = 2) =>
    /\ hist[2].now = U32Add(hist[1].now, U32(0, 299)) => ModeChanges(hist) = 1
    /\ hist[2].now = U32Add(hist[1].now, U32(0, 300)) => ModeChanges(hist) = 2

\* C10: a press is accepted iff (now - lastAccepted) mod 2^32 >= 300, also
\* across the wrap of the counter: an accepted press stores now and changes
\* the mode, a rejected press changes neither the mode, the mask nor the
\* stored timestamp.
C10_DebounceIsWraparoundSafe ==
  call.op = "OnButtonPress" =>
    IF WithinWindow(call.now, call.last)
      THEN /\ s_mode = call.mode
           /\ s_fx_mask = call.mask
           /\ s_button_last_ms = call.last
      ELSE /\ s_button_last_ms = call.now
           /\ s_mode # call.mode

\* C10 witness: a press accepted 100 ms before the wrap of the counter, a
\* press 299 ms after it (at 199, after the wrap) rejected, and a press 300
\* ms after it (at 200) accepted
C10_Witness ==
  /\ Len(hist) = 3 /\ Len(TrailingPresses(hist)) = 3
  /\ hist[1].now = U32(65535, 65436) /\ hist[1].changed
  /\ hist[2].now = U32(0, 199) /\ ~hist[2].changed
  /\ hist[2].last = U32(65535, 65436)
  /\ hist[3].now = U32(0, 200) /\ hist[3].changed
  /\ hist[3].last = U32(65535, 65436)
  /\ s_button_last_ms = U32(0, 200)
  /\ s_mode = APP_FX_MODE_REVERB

(***************************************************************************)
(* SpecSilence: frames of silence after construction, under any mask       *)
(***************************************************************************)
NextSilence ==
  \/ \E mask \in MaskValues :
       /\ steps < MaxSilenceOps
       /\ Len(hist) < MaxSilenceMasks
       /\ CallSetFxMask(mask)
  \/ \E ub \in UbOutcomes :
       steps < MaxSilenceOps /\ CallProcessFrame(0, 0, ub)

SpecSilence == Init /\ [][NextSilence]_vars

\* every filter, compressor-envelope, delay-buffer and reverb-buffer value
\* is zero
SilentValues ==
  \A c \in Chan :
    /\ s_dc[c] = DcZero /\ s_clean_hpf[c] = DcZero
    /\ s_wet_hpf_delay[c] = DcZero /\ s_wet_hpf_reverb[c] = DcZero
    /\ s_wet_lpf_delay[c] = 0 /\ s_wet_lpf_reverb[c] = 0
    /\ s_cab[c] = BiquadZero
    /\ s_comp[c].env = 0
    /\ s_dist[c] = DistZero
    /\ \A i \in DOMAIN s_delay_buf[c] : s_delay_buf[c][i] = 0
    /\ s_delay[c].last_out_s24 = 0 /\ s_delay[c].fb_lp_s24 = 0
    /\ \A i \in DOMAIN s_reverb[c].delay : s_reverb[c].delay[i] = 0
    /\ \A i \in DOMAIN s_reverb[c].ap : s_reverb[c].ap[i] = 0
    /\ s_reverb[c].lp = 0

\* C6: from a freshly initialised pipeline with the default parameters,
\* under every mask, every AppDsp_ProcessFrame(0,0) outputs (0,0) and
\* leaves every filter, compressor-envelope, delay-buffer and reverb-buffer
\* value at zero, however many calls are made.
C6_SilenceIsAFixedPoint ==
  /\ Params = DocumentedDefault
  /\ ret.frame => (ret.out = [l |-> 0, r |-> 0] /\ SilentValues)

\* C6 witness: eight frames of silence with all three effects enabled, so
\* that the delay wrote its buffer and the reverb went round its delay line
C6_Witness ==
  /\ ret.frame /\ ret.mask = 7 /\ steps = 9
  /\ Len(hist) = 1
  /\ \A c \in Chan : s_delay[c].idx = 1 /\ s_delay[c].phase = 0
  /\ ret.out = [l |-> 0, r |-> 0]

(***************************************************************************)
(* SpecFx: DspDelay_Process or DspReverb_Process alone, on the state of    *)
(* the left channel, with the feedback and the damping set to the ends of  *)
(* their ranges                                                            *)
(***************************************************************************)
InitFx ==
  /\ ProgInit
  /\ call = [op |-> "boot"]
  /\ hist = <<>>
  /\ ret = RetNone
  /\ steps = 0
  /\ fx_sel \in {"delay", "reverb"}

CallDelayProcess(x) ==
  LET f == DspDelay_Process(x, s_delay_buf["l"], s_delay["l"],
                            s_delay_feedback_q15)
  IN  /\ s_delay_buf' = [s_delay_buf EXCEPT !["l"] = f.buf]
      /\ s_delay' = [s_delay EXCEPT !["l"] = f.st]
      /\ call' = [op |-> "DspDelay_Process", x |-> x]
      /\ ret' = [frame |-> FALSE, y |-> f.y]
      /\ steps' = steps + 1
      /\ UNCHANGED <<modeVars, paramVars, filterVars, s_dist, s_reverb,
                     hist, fx_sel, ioVars>>

CallReverbProcess(x) ==
  LET f == DspReverb_Process(x, s_reverb["l"], LfoStep("l"),
                             s_reverb_damp_q15, s_reverb_feedback_q15)
  IN  /\ s_reverb' = [s_reverb EXCEPT !["l"] = f.st]
      /\ call' = [op |-> "DspReverb_Process", x |-> x]
      /\ ret' = [frame |-> FALSE, y |-> f.y]
      /\ steps' = steps + 1
      /\ UNCHANGED <<modeVars, paramVars, filterVars, s_dist, s_delay_buf,
                     s_delay, hist, fx_sel, ioVars>>

FxParamInputs == {0, 32768}

NextFx ==
  \/ \E x \in SampleInputs :
       /\ fx_sel = "delay" /\ steps < MaxDelayCalls
       /\ CallDelayProcess(x)
  \/ \E value \in FxParamInputs :
       /\ fx_sel = "delay" /\ steps < MaxDelayCalls
       /\ CallSetParam(APP_DSP_PARAM_DELAY_FEEDBACK_Q15, value)
  \/ \E x \in SampleInputs :
       /\ fx_sel = "reverb" /\ steps < MaxReverbCalls
       /\ CallReverbProcess(x)
  \/ \E id \in {APP_DSP_PARAM_REVERB_FEEDBACK_Q15,
                APP_DSP_PARAM_REVERB_DAMP_Q15}, value \in FxParamInputs :
       /\ fx_sel = "reverb" /\ steps < MaxReverbCalls
       /\ CallSetParam(id, value)

SpecFx == InitFx /\ [][NextFx]_vars

\* C5: for every feedback and damping value in [0,32768] and every sequence
\* of S24 inputs, every entry of the reverb delay line, of both allpass
\* buffers and of the delay-effect buffer (as the sample it stands for), the
\* reverb damping state, the delay feedback-LPF state and every value
\* returned by DspReverb_Process and DspDelay_Process are in the S24 range.
C5_FeedbackLoopsStayInS24 ==
  /\ s_delay_feedback_q15 \in 0..32768
  /\ s_reverb_feedback_q15 \in 0..32768
  /\ s_reverb_damp_q15 \in 0..32768
  /\ \A c \in Chan :
       /\ \A i \in DOMAIN s_reverb[c].delay : InS24(s_reverb[c].delay[i])
       /\ \A i \in DOMAIN s_reverb[c].ap : InS24(s_reverb[c].ap[i])
       /\ InS24(s_reverb[c].lp)
       /\ \A i \in DOMAIN s_delay_buf[c] : InS24(s_delay_buf[c][i] * 256)
       /\ InS24(s_delay[c].fb_lp_s24)
  /\ call.op \in {"DspDelay_Process", "DspReverb_Process"} => InS24(ret.y)

\* C5 witness: the reverb at maximal feedback, its delay line holding the
\* full scale at both ends of the range after going round, and a returned
\* sample saturated at the positive end
C5_Witness ==
  /\ call.op = "DspReverb_Process"
  /\ s_reverb_feedback_q15 = 32768
  /\ steps = MaxReverbCalls
  /\ ret.y = S24_MAX
  /\ \E i \in DOMAIN s_reverb["l"].delay : s_reverb["l"].delay[i] = S24_MAX
  /\ s_reverb["l"].lp # 0

\* the step is one DspDelay_Process call on the left channel
DelayStep == call'.op = "DspDelay_Process" /\ steps' = steps + 1

\* the call updated the buffer: the entry under the cursor was read, returned
\* and held, and replaced by the input plus the filtered feedback
DelayUpdated ==
  LET st == s_delay["l"]
      i  == st.idx
  IN  /\ ret'.y = s_delay_buf["l"][i] * 256
      /\ s_delay'["l"].last_out_s24 = ret'.y
      /\ s_delay'["l"].idx = (i + 1) % DELAY_LEN
      /\ s_delay_buf'["l"][i] =
           s24_to_s16(clamp_s24(call'.x
             + MulShr(s_delay'["l"].fb_lp_s24, s_delay_feedback_q15, 15)))
      /\ \A j \in DOMAIN s_delay_buf["l"] :
           j # i => s_delay_buf'["l"][j] = s_delay_buf["l"][j]

\* the call held: nothing but the phase counter changed and the held output
\* was returned
DelayHeld ==
  /\ s_delay_buf' = s_delay_buf
  /\ s_delay'["l"].idx = s_delay["l"].idx
  /\ s_delay'["l"].fb_lp_s24 = s_delay["l"].fb_lp_s24
  /\ s_delay'["l"].last_out_s24 = s_delay["l"].last_out_s24
  /\ ret'.y = s_delay["l"].last_out_s24

\* C18: the delay buffer is read and written on exactly one of every 8
\* consecutive DspDelay_Process calls (those entered with phase = 0); on the
\* other 7 calls the buffer, the cursor, the feedback-LPF state and the held
\* output are unchanged, the input sample is discarded and the previously
\* held output is returned.
C18_DelayHoldsBetweenUpdates ==
  [][DelayStep =>
       /\ s_delay'["l"].phase = (s_delay["l"].phase + 1) % 8
       /\ IF s_delay["l"].phase = 0 THEN DelayUpdated ELSE DelayHeld]_vars

\* C18 witness: the second call after the update that read back the first
\* stored sample: the held echo is returned although the input is the
\* opposite full scale
C18_Witness ==
  /\ call.op = "DspDelay_Process" /\ steps = MaxDelayCalls
  /\ s_delay["l"].phase = 2 /\ s_delay["l"].idx = 1
  /\ call.x = S24_MIN
  /\ ret.y = 8388352
  /\ s_delay["l"].last_out_s24 = ret.y

(***************************************************************************)
(* SpecTiming: the delay effect from a freshly initialised state, either   *)
(* DspDelay_Process alone on the left channel or whole frames with the     *)
(* delay-only mask (an impulse on the first frame, then silence); every    *)
(* call of DspDelay_Process is recorded with its argument, the feedback in *)
(* force and the value it returned                                         *)
(***************************************************************************)
InitTiming ==
  /\ ProgInit
  /\ call = [op |-> "boot"]
  /\ hist = <<>>
  /\ ret = RetNone
  /\ steps = 0
  /\ fx_sel \in {"delay_calls", "delay_frames"}

\* the argument of the left DspDelay_Process call of a frame whose mask has
\* no distortion bit: clamp_s24(l) after the compressor
DelayIn(c, x) ==
  clamp_s24(PreCompress(PreInputGain(PreCleanHpf(PreDcBlock(
    ChanStart(c, x))))).v)

DelayCallRecord(x, y) ==
  [op |-> "DspDelay_Process", x |-> x, y |-> y, fb |-> s_delay_feedback_q15]

CallDelayProcessTraced(x) ==
  LET f == DspDelay_Process(x, s_delay_buf["l"], s_delay["l"],
                            s_delay_feedback_q15)
  IN  /\ s_delay_buf' = [s_delay_buf EXCEPT !["l"] = f.buf]
      /\ s_delay' = [s_delay EXCEPT !["l"] = f.st]
      /\ call' = [op |-> "DspDelay_Process", x |-> x]
      /\ ret' = [frame |-> FALSE, y |-> f.y]
      /\ hist' = Append(hist, DelayCallRecord(x, f.y))
      /\ steps' = steps + 1
      /\ UNCHANGED <<modeVars, paramVars, filterVars, s_dist, s_reverb,
                     fx_sel, ioVars>>

CallProcessFrameTraced(l, r, ub) ==
  /\ AppDsp_ProcessFrame(l, r, ub)
  /\ call' = [op |-> "ProcessFrame", l |-> l, r |-> r]
  /\ hist' = Append(hist, DelayCallRecord(DelayIn("l", l),
                                          ret'.returned["l"].Delay))
  /\ steps' = steps + 1
  /\ UNCHANGED <<fx_sel, ioVars>>

\* the impulse of the scenario and two samples that the 16-bit storage
\* changes
ImpulseFrame == <<8000000, 0>>
TimingInputs == {8000001, -257}

IsDelayCall(e) == e.op = "DspDelay_Process"
DelayCalls == SelectSeq(hist, IsDelayCall)

NextTiming ==
  \/ \E value \in {-1, 0} :
       /\ fx_sel = "delay_calls" /\ steps = 0
       /\ CallSetParam(APP_DSP_PARAM_DELAY_FEEDBACK_Q15, value)
  \/ \E x \in TimingInputs :
       /\ fx_sel = "delay_calls" /\ steps \in 1..MaxTimingCalls
       /\ CallDelayProcessTraced(x)
  \/ /\ fx_sel = "delay_frames" /\ steps = 0
     /\ CallSetFxMask(U32(0, APP_FX_BIT_DELAY))
  \/ \E value \in {0, 32768} :
       /\ fx_sel = "delay_frames" /\ steps = 1
       /\ CallSetParam(APP_DSP_PARAM_DELAY_FEEDBACK_Q15, value)
  \/ \E ub \in UbOutcomes :
       /\ fx_sel = "delay_frames" /\ steps = 2
       /\ CallProcessFrameTraced(ImpulseFrame[1], ImpulseFrame[2], ub)
  \/ \E ub \in UbOutcomes :
       /\ fx_sel = "delay_frames" /\ steps \in 3..(MaxTimingFrames + 1)
       /\ CallProcessFrameTraced(0, 0, ub)

SpecTiming == InitTiming /\ [][NextTiming]_vars

\* the sample that the 16-bit delay buffer gives back for x
Quantised(x) == (x \div 256) * 256

\* the sample DspDelay_Process is stated to return at call n (0-based)
EchoOf(n) ==
  IF n < DELAY_LEN * DELAY_DECIM
    THEN 0
    ELSE Quantised(
           DelayCalls[DELAY_DECIM * ((n \div DELAY_DECIM) - DELAY_LEN) + 1].x)

\* C11: with feedback = 0 and a freshly initialised delay state, the value
\* returned by DspDelay_Process at call n (0-based) is 0 for every
\* n < DELAY_LEN * 8 and afterwards the 16-bit-quantised input of call
\* 8 * (floor(n / 8) - DELAY_LEN); so an impulse on the first frame under
\* the delay-only mask reaches the wet signal first at frame DELAY_LEN * 8.
C11_DelayTiming ==
  \A n \in 0..(Len(DelayCalls) - 1) :
    (\A j \in 1..(n + 1) : DelayCalls[j].fb = 0)
      => DelayCalls[n + 1].y = EchoOf(n)

\* C11 witness: whole frames, feedback 0: the impulse of the first frame
\* comes back for the first time at frame DELAY_LEN * 8, quantised, and the
\* sample of frame 8 comes back at frame (DELAY_LEN + 1) * 8
C11_Witness ==
  /\ fx_sel = "delay_frames"
  /\ Len(DelayCalls) = (DELAY_LEN + 1) * DELAY_DECIM + 1
  /\ \A j \in 1..Len(DelayCalls) : DelayCalls[j].fb = 0
  /\ DelayCalls[1].x # 0
  /\ \A j \in 1..(DELAY_LEN * DELAY_DECIM) : DelayCalls[j].y = 0
  /\ DelayCalls[DELAY_LEN * DELAY_DECIM + 1].y = Quantised(DelayCalls[1].x)
  /\ DelayCalls[DELAY_LEN * DELAY_DECIM + 1].y # 0
  /\ DelayCalls[Len(DelayCalls)].y = Quantised(DelayCalls[DELAY_DECIM + 1].x)
  /\ DelayCalls[Len(DelayCalls)].y # DelayCalls[Len(DelayCalls)].x

(***************************************************************************)
(* SpecRace: one AppDsp_SetFxMask call and one AppDsp_OnButtonPress call   *)
(* in flight together, each advancing by one access of a volatile scalar   *)
(* at a time.  The record of the calls in flight holds, for each of the    *)
(* two, its position and its locals.                                       *)
(***************************************************************************)
RaceTimes == {U32(0, 100), U32(0, 300)}

InFlight == call.op = "concurrent"

\* the two calls are entered
RaceStart(mask, now_ms) ==
  /\ call' = [op    |-> "concurrent",
              press |-> [pc |-> "debounce", now_ms |-> now_ms,
                         mode |-> s_mode, mask |-> s_fx_mask],
              set   |-> [pc |-> "store_mask", mask |-> SanitizeMask(mask)]]
  /\ ret' = RetNone
  /\ steps' = steps + 2
  /\ UNCHANGED <<modeVars, paramVars, filterVars, fxVars, hist, fx_sel, ioVars>>

\* the test of s_mode made at position pc of the if-chain of
\* AppDsp_OnButtonPress and the mask stored when it succeeds
ChainMode(pc) ==
  CASE pc = "if_bypass"     -> APP_FX_MODE_BYPASS
    [] pc = "if_distortion" -> APP_FX_MODE_DISTORTION
    [] pc = "if_reverb"     -> APP_FX_MODE_REVERB
    [] pc = "if_delay"      -> APP_FX_MODE_DELAY
    [] pc = "if_all"        -> APP_FX_MODE_ALL

ChainNext(pc) ==
  CASE pc = "if_bypass"     -> "if_distortion"
    [] pc = "if_distortion" -> "if_reverb"
    [] pc = "if_reverb"     -> "if_delay"
    [] pc = "if_delay"      -> "if_all"
    [] pc = "if_all"        -> "returned"

\* the position and the locals of the press after one access, from p
PressAfter(p) ==
  CASE p.pc = "debounce" ->
         [p EXCEPT !.pc = IF Debounced(p.now_ms, s_button_last_ms)
                            THEN "returned" ELSE "store_last"]
    [] p.pc = "store_last" -> [p EXCEPT !.pc = "switch"]
    [] p.pc = "switch" ->
         [p EXCEPT !.pc = "store_mode", !.mode = NextMode(s_mode)]
    [] p.pc = "store_mode" -> [p EXCEPT !.pc = "if_bypass"]
    [] p.pc = "store_mask" -> [p EXCEPT !.pc = "returned"]
    [] OTHER ->
         IF s_mode = ChainMode(p.pc)
           THEN [p EXCEPT !.pc = "store_mask",
                          !.mask = MaskOfMode(ChainMode(p.pc), s_fx_mask)]
           ELSE [p EXCEPT !.pc = ChainNext(p.pc)]

\* one access of AppDsp_OnButtonPress
OnButtonPressStep ==
  /\ InFlight /\ call.press.pc # "returned"
  /\ call' = [call EXCEPT !.press = PressAfter(call.press)]
  /\ s_button_last_ms' = IF call.press.pc = "store_last"
                           THEN call.press.now_ms ELSE s_button_last_ms
  /\ s_mode' = IF call.press.pc = "store_mode"
                 THEN call.press.mode ELSE s_mode
  /\ s_fx_mask' = IF call.press.pc = "store_mask"
                    THEN call.press.mask ELSE s_fx_mask
  /\ UNCHANGED <<paramVars, filterVars, fxVars, hist, ret, steps, fx_sel, ioVars>>

\* one access of AppDsp_SetFxMask
SetFxMaskStep ==
  /\ InFlight /\ call.set.pc # "returned"
  /\ call' = [call EXCEPT !.set.pc = IF call.set.pc = "store_mask"
                                       THEN "store_mode" ELSE "returned"]
  /\ s_fx_mask' = IF call.set.pc = "store_mask"
                    THEN call.set.mask ELSE s_fx_mask
  /\ s_mode' = IF call.set.pc = "store_mode"
                 THEN ModeOfMask(call.set.mask) ELSE s_mode
  /\ UNCHANGED <<s_button_last_ms, paramVars, filterVars, fxVars, hist, ret,
                 steps, fx_sel, ioVars>>

NextRace ==
  \/ \E mask \in MaskValues :
       ~InFlight /\ steps < MaxRaceSetup /\ CallSetFxMask(mask)
  \/ \E mask \in MaskValues, now_ms \in RaceTimes :
       ~InFlight /\ steps <= MaxRaceSetup /\ RaceStart(mask, now_ms)
  \/ OnButtonPressStep
  \/ SetFxMaskStep

SpecRace == Init /\ [][NextRace]_vars

BothReturned ==
  InFlight /\ call.press.pc = "returned" /\ call.set.pc = "returned"

\* C12: for any interleaving, access by access, of one AppDsp_SetFxMask call
\* with one AppDsp_OnButtonPress call, once both calls have returned the
\* stored mode is the legacy mode of the stored mask.
C12_MaskAndModeConsistentAfterRace ==
  BothReturned => s_mode = ModeOfMask(s_fx_mask)

(***************************************************************************)
(* SpecTear: one AppDsp_ProcessFrame call in flight while the control      *)
(* collaborator writes.  The frame advances by one read of a volatile      *)
(* control word at a time, in the order of the source; the record of the   *)
(* call in flight holds the values read so far (-1: not read) and the      *)
(* frame's effect on the filter and effect state is computed from them     *)
(* when it returns.                                                        *)
(***************************************************************************)
Unread == [c \in Chan |-> 0 - 1]

ViewNone ==
  [mask |-> 0 - 1, dmix |-> 0 - 1, rmix |-> 0 - 1,
   drive |-> Unread, dfb |-> Unread, damp |-> Unread, rfb |-> Unread,
   gain |-> Unread]

FrameInFlight == call.op = "frame" /\ ~call.returned

\* the reads of volatile control words made after the read of the mask, in
\* program order
ReadPoint(f, c) == [f |-> f, c |-> c]

DistReads(mask) ==
  IF HasBit(mask, APP_FX_BIT_DISTORTION)
    THEN <<ReadPoint("drive", "l"), ReadPoint("drive", "r")>>
    ELSE <<>>

\* DspDelay_Process reads the feedback only when it updates the buffer
DelayReads(mask) ==
  IF HasBit(mask, APP_FX_BIT_DELAY)
    THEN (IF s_delay["l"].phase = 0
            THEN <<ReadPoint("dfb", "l")>> ELSE <<>>)
         \o (IF s_delay["r"].phase = 0
               THEN <<ReadPoint("dfb", "r")>> ELSE <<>>)
         \o <<ReadPoint("dmix", "l")>>
    ELSE <<>>

ReverbReads(mask) ==
  IF HasBit(mask, APP_FX_BIT_REVERB)
    THEN <<ReadPoint("damp", "l"), ReadPoint("rfb", "l"),
           ReadPoint("damp", "r"), ReadPoint("rfb", "r"),
           ReadPoint("rmix", "l")>>
    ELSE <<>>

ReadOrder(mask) ==
  DistReads(mask) \o DelayReads(mask) \o ReverbReads(mask)
    \o <<ReadPoint("gain", "l"), ReadPoint("gain", "r")>>

\* the values read so far after the read p
ViewAfter(view, p) ==
  CASE p.f = "mask"  -> [view EXCEPT !.mask = s_fx_mask]
    [] p.f = "drive" -> [view EXCEPT !.drive[p.c] = s_dist_drive_q8]
    [] p.f = "dfb"   -> [view EXCEPT !.dfb[p.c] = s_delay_feedback_q15]
    [] p.f = "dmix"  -> [view EXCEPT !.dmix = s_delay_mix_q15]
    [] p.f = "damp"  -> [view EXCEPT !.damp[p.c] = s_reverb_damp_q15]
    [] p.f = "rfb"   -> [view EXCEPT !.rfb[p.c] = s_reverb_feedback_q15]
    [] p.f = "rmix"  -> [view EXCEPT !.rmix = s_reverb_mix_q15]
    [] p.f = "gain"  -> [view EXCEPT !.gain[p.c] = s_gain_q15]

\* the control surface that channel c of the frame in flight works with
CtlOf(view, c) ==
  [mask  |-> view.mask,
   drive |-> view.drive[c],
   dfb   |-> view.dfb[c],
   dmix  |-> view.dmix,
   damp  |-> view.damp[c],
   rfb   |-> view.rfb[c],
   rmix  |-> view.rmix,
   gain  |-> view.gain[c]]

FrameEnter(l, r) ==
  /\ call' = [op |-> "frame", l |-> l, r |-> r, pc |-> 0, view |-> ViewNone,
              writes |-> 0, returned |-> FALSE]
  /\ ret' = RetNone
  /\ steps' = steps + 1
  /\ UNCHANGED <<modeVars, paramVars, filterVars, fxVars, hist, fx_sel, ioVars>>

\* one read of a control word by the frame in flight
FrameReadStep ==
  /\ FrameInFlight
  /\ call.pc = 0 \/ call.pc <= Len(ReadOrder(call.view.mask))
  /\ call' = [call EXCEPT
       !.pc = call.pc + 1,
       !.view = ViewAfter(call.view,
                  IF call.pc = 0 THEN ReadPoint("mask", "l")
                                 ELSE ReadOrder(call.view.mask)[call.pc])]
  /\ UNCHANGED <<modeVars, paramVars, filterVars, fxVars, hist, ret, steps,
                 fx_sel, ioVars>>

\* the frame returns: limiter, write-back
FrameReturn(ub) ==
  /\ FrameInFlight
  /\ call.pc > Len(ReadOrder(call.view.mask))
  /\ FrameCommitWith(
       [c \in Chan |-> ChanChainWith(c, IF c = "l" THEN call.l ELSE call.r,
                                     ub, CtlOf(call.view, c))],
       DspFilters_Limiter(s_limiter,
         ChanChainWith("l", call.l, ub, CtlOf(call.view, "l")).v,
         ChanChainWith("r", call.r, ub, CtlOf(call.view, "r")).v),
       call.view.mask)
  /\ call' = [call EXCEPT !.returned = TRUE]
  /\ UNCHANGED <<hist, steps, fx_sel, ioVars>>

\* a write of the control collaborator while the frame is in flight
SetParamDuringFrame(id, value) ==
  /\ FrameInFlight /\ call.writes < MaxTearWrites
  /\ AppDsp_SetParam(id, value)
  /\ call' = [call EXCEPT !.writes = call.writes + 1]
  /\ UNCHANGED <<hist, ret, steps, fx_sel, ioVars>>

SetFxMaskDuringFrame(mask) ==
  /\ FrameInFlight /\ call.writes < MaxTearWrites
  /\ AppDsp_SetFxMask(mask)
  /\ call' = [call EXCEPT !.writes = call.writes + 1]
  /\ UNCHANGED <<hist, ret, steps, fx_sel, ioVars>>

TearFrames == {<<S24_MAX, S24_MAX>>, <<0, 0>>}

NextTear ==
  \/ \E mask \in MaskValues :
       call.op # "frame" /\ steps < MaxTearSetup /\ CallSetFxMask(mask)
  \/ \E f \in TearFrames :
       call.op # "frame" /\ FrameEnter(f[1], f[2])
  \/ FrameReadStep
  \/ \E ub \in UbOutcomes : FrameReturn(ub)
  \/ \E id \in ParamIds, value \in ParamExtremes :
       SetParamDuringFrame(id, value)
  \/ \E mask \in MaskValues : SetFxMaskDuringFrame(mask)

SpecTear == Init /\ [][NextTear]_vars

\* both channels read the same value, where both read one
SameForBoth(p) == p["l"] = 0 - 1 \/ p["r"] = 0 - 1 \/ p["l"] = p["r"]

\* C13: if AppDsp_SetParam or AppDsp_SetFxMask writes interleave at any
\* point with a running AppDsp_ProcessFrame, the frame processes its left
\* and its right channel with the same value of the mask and of every
\* parameter.
C13_FrameReadsControlConsistently ==
  (call.op = "frame" /\ call.returned) =>
    /\ SameForBoth(call.view.drive)
    /\ SameForBoth(call.view.dfb)
    /\ SameForBoth(call.view.damp)
    /\ SameForBoth(call.view.rfb)
    /\ SameForBoth(call.view.gain)

(***************************************************************************)
(* SpecDist: DspDistortion_Process alone, on the state of the left         *)
(* channel, under any legal drive                                          *)
(***************************************************************************)
InitDist ==
  /\ ProgInit
  /\ call = [op |-> "boot"]
  /\ hist = <<>>
  /\ ret = RetNone
  /\ steps = 0
  /\ fx_sel = "distortion"

\* hp_y of DspDistortion_Process
DistHpY(st, x) == x - st.hp_x1 + MulShr(st.hp_y1, hp_r_q15, 15)

\* the call, with what its two int32_t intermediates did: drive_fits iff
\* (hp_y * drive) >> 8 is representable, sum_fits iff d24 + os_x1 is
CallDistortionProcess(x, ub) ==
  LET f == DspDistortion_Process(s_dist["l"], x, s_dist_drive_q8, ub)
  IN  /\ s_dist' = [s_dist EXCEPT !["l"] = f.st]
      /\ call' = [op |-> "DspDistortion_Process", x |-> x]
      /\ ret' = [frame |-> FALSE, y |-> f.y,
                 drive_fits |-> DriveFits(DistHpY(s_dist["l"], x),
                                          s_dist_drive_q8),
                 sum_fits |-> ~AddOverflows32(f.st.os_x1,
                                              s_dist["l"].os_x1)]
      /\ steps' = steps + 1
      /\ UNCHANGED <<modeVars, paramVars, filterVars, s_delay_buf, s_delay,
                     s_reverb, hist, fx_sel, ioVars>>

DriveInputs == {-1, 256, DIST_DRIVE_DEFAULT_Q8, INT32_MAX}

NextDist ==
  \/ \E value \in DriveInputs :
       /\ steps < MaxDistCalls
       /\ CallSetParam(APP_DSP_PARAM_DIST_DRIVE_Q8, value)
  \/ \E x \in SampleInputs, ub \in UbOutcomes :
       /\ steps < MaxDistCalls
       /\ CallDistortionProcess(x, ub)

SpecDist == InitDist /\ [][NextDist]_vars

\* C14: for every legal drive value in [0,131072] and every sequence of S24
\* input samples, the drive-stage value (hp_y * drive) >> 8 and the
\* oversampling sum d24 + os_x1 computed in DspDistortion_Process both fit
\* in a signed 32-bit integer.
C14_NoSilentOverflowInDistortion ==
  /\ s_dist_drive_q8 \in 0..DIST_DRIVE_MAX_Q8
  /\ call.op = "DspDistortion_Process" => (ret.drive_fits /\ ret.sum_fits)

(***************************************************************************)
(* SpecTwin: two runs of the pipeline side by side, with the same control  *)
(* calls and the same left input but their own right inputs.  The state    *)
(* variables are the first run; the record of the call carries, in twin,   *)
(* the filter and effect state of the second run, its limiter gain and the *)
(* left sample it handed to the limiter.                                   *)
(***************************************************************************)
\* the second run after a frame: f its two channels, lim its limiter result
TwinAfter(f, lim) ==
  [dc             |-> [c \in Chan |-> f[c].dc],
   clean_hpf      |-> [c \in Chan |-> f[c].clean_hpf],
   comp           |-> [c \in Chan |-> f[c].comp],
   dist           |-> [c \in Chan |-> f[c].dist],
   cab            |-> [c \in Chan |-> f[c].cab],
   delay_buf      |-> [c \in Chan |-> f[c].delay_buf],
   delay          |-> [c \in Chan |-> f[c].delay],
   wet_hpf_delay  |-> [c \in Chan |-> f[c].wet_hpf_delay],
   wet_lpf_delay  |-> [c \in Chan |-> f[c].wet_lpf_delay],
   reverb         |-> [c \in Chan |-> f[c].reverb],
   wet_hpf_reverb |-> [c \in Chan |-> f[c].wet_hpf_reverb],
   wet_lpf_reverb |-> [c \in Chan |-> f[c].wet_lpf_reverb],
   limiter        |-> lim.gain_q15,
   pre            |-> [c \in Chan |-> f[c].v],
   out            |-> [l |-> clamp_s24(lim.l), r |-> clamp_s24(lim.r)]]

TwinLimiter(tw, f) ==
  TwinAfter(f, DspFilters_Limiter(tw.limiter, f["l"].v, f["r"].v))

\* AppDsp_ProcessFrame of the second run
TwinFrame(tw, l, r, ub) ==
  TwinLimiter(tw, [c \in Chan |->
    ChanStagesWith(ChanStartOf(tw, c, IF c = "l" THEN l ELSE r), ub,
                   CtlNow)])

\* the second run after construction and after AppDsp_Init
TwinZero ==
  [dc             |-> [c \in Chan |-> DcZero],
   clean_hpf      |-> [c \in Chan |-> DcZero],
   comp           |-> [c \in Chan |-> CompZero],
   dist           |-> [c \in Chan |-> DistZero],
   cab            |-> [c \in Chan |-> BiquadZero],
   delay_buf      |-> [c \in Chan |-> DelayBufZero],
   delay          |-> [c \in Chan |-> DelayZero],
   wet_hpf_delay  |-> [c \in Chan |-> DcZero],
   wet_lpf_delay  |-> [c \in Chan |-> 0],
   reverb         |-> [c \in Chan |-> ReverbZero],
   wet_hpf_reverb |-> [c \in Chan |-> DcZero],
   wet_lpf_reverb |-> [c \in Chan |-> 0],
   limiter        |-> 32768,
   pre            |-> [c \in Chan |-> 0],
   out            |-> [l |-> 0, r |-> 0]]

InitTwin ==
  /\ ProgInit
  /\ call = [op |-> "boot", twin |-> TwinZero]
  /\ hist = <<>>
  /\ ret = RetNone
  /\ steps = 0
  /\ fx_sel = "none"

TwinSetFxMask(mask) ==
  /\ AppDsp_SetFxMask(mask)
  /\ call' = [op |-> "SetFxMask", twin |-> call.twin]
  /\ ret' = RetNone
  /\ steps' = steps + 1
  /\ UNCHANGED <<hist, fx_sel, ioVars>>

TwinSetParam(id, value) ==
  /\ AppDsp_SetParam(id, value)
  /\ call' = [op |-> "SetParam", twin |-> call.twin]
  /\ ret' = RetNone
  /\ steps' = steps + 1
  /\ UNCHANGED <<hist, fx_sel, ioVars>>

\* one frame in both runs: left input l in both, right input r in the
\* first run and r2 in the second
TwinProcessFrame(l, r, r2, ub) ==
  /\ AppDsp_ProcessFrame(l, r, ub)
  /\ call' = [op |-> "ProcessFrame", twin |-> TwinFrame(call.twin, l, r2, ub)]
  /\ steps' = steps + 1
  /\ UNCHANGED <<hist, fx_sel, ioVars>>

TwinMasks == {U32(0, 0), U32(0, 1), U32(0, 7)}
TwinLefts == {0, S24_MAX}
TwinRights == {<<0, 0>>, <<0, S24_MAX>>, <<S24_MAX, 0>>, <<S24_MIN, S24_MAX>>}

NextTwin ==
  \/ \E mask \in TwinMasks :
       steps < MaxTwinSteps /\ TwinSetFxMask(mask)
  \/ \E value \in ParamExtremes :
       steps < MaxTwinSteps /\ TwinSetParam(APP_DSP_PARAM_GAIN_Q15, value)
  \/ \E l \in TwinLefts, rr \in TwinRights, ub \in UbOutcomes :
       steps < MaxTwinSteps /\ TwinProcessFrame(l, rr[1], rr[2], ub)

SpecTwin == InitTwin /\ [][NextTwin]_vars

\* the left-channel state of the two runs is the same
LeftStateAgrees ==
  /\ call.twin.dc["l"] = s_dc["l"]
  /\ call.twin.clean_hpf["l"] = s_clean_hpf["l"]
  /\ call.twin.comp["l"] = s_comp["l"]
  /\ call.twin.dist["l"] = s_dist["l"]
  /\ call.twin.cab["l"] = s_cab["l"]
  /\ call.twin.delay_buf["l"] = s_delay_buf["l"]
  /\ call.twin.delay["l"] = s_delay["l"]
  /\ call.twin.wet_hpf_delay["l"] = s_wet_hpf_delay["l"]
  /\ call.twin.wet_lpf_delay["l"] = s_wet_lpf_delay["l"]
  /\ call.twin.reverb["l"] = s_reverb["l"]
  /\ call.twin.wet_hpf_reverb["l"] = s_wet_hpf_reverb["l"]
  /\ call.twin.wet_lpf_reverb["l"] = s_wet_lpf_reverb["l"]

\* C15: for two runs of the pipeline with the same control history and the
\* same left-input sequence but arbitrary different right-input sequences,
\* every left-channel state variable and the left signal entering the
\* limiter are identical in both runs at every frame.
C15_LeftChannelIndependentOfRight ==
  /\ LeftStateAgrees
  /\ ret.frame => ret.pre["l"] = call.twin.pre["l"]

\* C15 witness: after two frames with an effect enabled the right channels
\* and the limiter gains of the two runs differ, and with them the left
\* outputs, while the left input was not silent
C15_Witness ==
  /\ ret.frame /\ steps = MaxTwinSteps /\ ret.mask # 0
  /\ ret.pre["l"] # 0
  /\ call.twin.comp["r"] # s_comp["r"]
  /\ call.twin.limiter # s_limiter
  /\ call.twin.out["l"] # ret.out["l"]

(***************************************************************************)
(* SpecGate: frames of one loud input under changing masks                 *)
(***************************************************************************)
GateFrames == {<<S24_MAX, S24_MIN>>}

NextGate ==
  \/ \E mask \in MaskValues :
       steps < MaxGateSteps /\ CallSetFxMask(mask)
  \/ \E f \in GateFrames, ub \in UbOutcomes :
       steps < MaxGateSteps /\ CallProcessFrame(f[1], f[2], ub)

SpecGate == Init /\ [][NextGate]_vars

\* the step is one AppDsp_ProcessFrame call
FrameStep == call'.op = "ProcessFrame" /\ steps' = steps + 1

\* the sample the frame was handed on channel c
FrameIn(c) == IF c = "l" THEN call'.l ELSE call'.r

\* the DC blocker, the clean HPF, the compressor and the limiter ran on the
\* frame's samples
AlwaysOnStagesRan ==
  /\ \A c \in Chan :
       /\ s_dc'[c] = DspFilters_DcBlock(s_dc[c], FrameIn(c)).st
       /\ ret'.returned[c].DcBlock = DspFilters_DcBlock(s_dc[c], FrameIn(c)).y
       /\ s_clean_hpf'[c] =
            DspFilters_Hpf1(s_clean_hpf[c], ret'.returned[c].DcBlock,
                            CLEAN_HPF_R_Q15).st
       /\ s_comp'[c] =
            DspFilters_CompressOne(s_comp[c],
              gain_s32_q8(ret'.returned[c].CleanHpf,
                          AUDIO_INPUT_GAIN_Q8)).st
  /\ s_limiter' =
       DspFilters_Limiter(s_limiter, ret'.pre["l"], ret'.pre["r"]).gain_q15

\* C17: in one AppDsp_ProcessFrame call the distortion and cab-sim state
\* changes only if the distortion bit is set, the delay buffer, cursor,
\* phase counter, held output and delay wet-filter state change only if the
\* delay bit is set, the reverb delay line, allpass buffers, cursors, damping
\* state and reverb wet-filter state change only if the reverb bit is set;
\* the DC blocker, clean HPF, compressor and limiter run in every frame.
C17_GatingLeavesDisabledEffectsUntouched ==
  [][FrameStep =>
       /\ ~HasBit(s_fx_mask, APP_FX_BIT_DISTORTION)
            => UNCHANGED <<s_dist, s_cab>>
       /\ ~HasBit(s_fx_mask, APP_FX_BIT_DELAY)
            => UNCHANGED <<s_delay_buf, s_delay, s_wet_hpf_delay,
                           s_wet_lpf_delay>>
       /\ ~HasBit(s_fx_mask, APP_FX_BIT_REVERB)
            => UNCHANGED <<s_reverb, s_wet_hpf_reverb, s_wet_lpf_reverb>>
       /\ AlwaysOnStagesRan]_vars

\* C17 witness: a frame under the distortion-only mask after a frame under
\* the delay-only mask: the distortion and the always-on stages hold the
\* trace of the loud input, the delay state is as the earlier frame left it
\* and the reverb state is as constructed
C17_Witness ==
  /\ ret.frame /\ ret.mask = APP_FX_BIT_DISTORTION
  /\ steps = MaxGateSteps
  /\ \A c \in Chan :
       /\ s_dist[c] # DistZero /\ s_cab[c] # BiquadZero
       /\ s_dc[c] # DcZero /\ s_clean_hpf[c] # DcZero /\ s_comp[c] # CompZero
       /\ s_delay[c].phase = 1 /\ s_delay_buf[c] # DelayBufZero
       /\ s_reverb[c] = ReverbZero
  /\ s_limiter < 32768

(***************************************************************************)
(* SpecCursor: runs of frames long enough for every cursor to wrap, with   *)
(* at most one mask set since the last AppDsp_Init                         *)
(***************************************************************************)
\* a frame loud enough to reach the delay line and the reverb, and quiet
\* enough for the distortion to stay inside int32_t
CursorFrames == {<<1000000, -1000000>>}

NextCursor ==
  \/ steps < MaxCursorSteps /\ CallInit
  \/ \E mask \in MaskValues :
       /\ steps < MaxCursorSteps /\ Len(hist) < 1
       /\ CallSetFxMask(mask)
  \/ \E f \in CursorFrames, ub \in UbOutcomes :
       steps < MaxCursorSteps /\ CallProcessFrame(f[1], f[2], ub)

SpecCursor == Init /\ [][NextCursor]_vars

\* every cursor is inside its buffer and every phase counter below the
\* decimation factor
CursorBounds ==
  \A c \in Chan :
    /\ s_delay[c].idx \in 0..(DELAY_LEN - 1)
    /\ s_delay[c].idx \in DOMAIN s_delay_buf[c]
    /\ s_delay[c].phase \in 0..7
    /\ s_reverb[c].idx \in 0..(REVERB_DELAY_LEN - 1)
    /\ s_reverb[c].idx \in DOMAIN s_reverb[c].delay
    /\ s_reverb[c].ap1_idx \in 0..(REVERB_AP1_LEN - 1)
    /\ s_reverb[c].ap2_idx \in 0..(REVERB_AP2_LEN - 1)
    /\ s_reverb[c].ap1_idx \in DOMAIN s_reverb[c].ap
    /\ REVERB_AP1_LEN + s_reverb[c].ap2_idx \in DOMAIN s_reverb[c].ap

\* the taps ri0 and ri1 that the next DspReverb_Process call reads are
\* inside the delay line
TapsInside ==
  \A c \in Chan :
    LET f == DspReverb_Process(0, s_reverb[c], LfoStep(c),
                               s_reverb_damp_q15, s_reverb_feedback_q15)
    IN  /\ f.ri0 \in DOMAIN s_reverb[c].delay
        /\ f.ri1 \in DOMAIN s_reverb[c].delay

\* in a frame every cursor of an enabled effect advances by 1 modulo its
\* capacity when its buffer is updated
CursorAdvance ==
  FrameStep =>
    \A c \in Chan :
      /\ HasBit(s_fx_mask, APP_FX_BIT_DELAY) =>
           s_delay'[c].idx =
             IF s_delay[c].phase = 0
               THEN (s_delay[c].idx + 1) % DELAY_LEN
               ELSE s_delay[c].idx
      /\ HasBit(s_fx_mask, APP_FX_BIT_REVERB) =>
           /\ s_reverb'[c].idx = (s_reverb[c].idx + 1) % REVERB_DELAY_LEN
           /\ s_reverb'[c].ap1_idx =
                (s_reverb[c].ap1_idx + 1) % REVERB_AP1_LEN
           /\ s_reverb'[c].ap2_idx =
                (s_reverb[c].ap2_idx + 1) % REVERB_AP2_LEN

\* C19: after any sequence of Init and ProcessFrame calls with any masks,
\* each delay-effect cursor is inside its buffer and its phase counter in
\* [0,8), each reverb delay cursor and each of the four allpass cursors is
\* inside its buffer, every buffer index read or written (the reverb taps
\* ri0 and ri1 included) lies inside its buffer, and each cursor advances by
\* exactly 1 modulo its capacity per buffer update.
C19_CursorsStayInsideTheirBuffers ==
  [](CursorBounds /\ TapsInside) /\ [][CursorAdvance]_vars

\* C19 witness: nine frames with all effects enabled: the delay cursor has
\* gone once round its buffer and stands at its start again, with the echo
\* of the first frame in the held output, and the reverb cursor stands on
\* its last entry
C19_Witness ==
  /\ ret.frame /\ ret.mask = 7
  /\ \A c \in Chan :
       /\ s_delay[c].idx = 0 /\ s_delay[c].phase = 1
       /\ s_delay_buf[c] # DelayBufZero
       /\ s_reverb[c].idx = REVERB_DELAY_LEN - 1
       /\ s_reverb[c].ap1_idx = REVERB_AP1_LEN - 1
       /\ s_reverb[c].delay # ReverbZero.delay

(***************************************************************************)
(* SpecStack: frames after the wet mixes were set at run time, alone and   *)
(* stacked                                                                 *)
(***************************************************************************)
\* mixes that the setters clamp to 0 and to 32768, and an odd mix that
\* neither 3/4 nor 1/2 divides evenly
StackMixes == {-1, 12345, 32769}

NextStack ==
  \/ \E mask \in MaskValues :
       /\ steps < MaxStackSteps /\ Len(hist) < 1
       /\ CallSetFxMask(mask)
  \/ \E id \in {APP_DSP_PARAM_DELAY_MIX_Q15, APP_DSP_PARAM_REVERB_MIX_Q15},
        value \in StackMixes :
       steps < MaxStackSteps /\ CallSetParam(id, value)
  \/ \E f \in CursorFrames, ub \in UbOutcomes :
       steps < MaxStackSteps /\ CallProcessFrame(f[1], f[2], ub)

SpecStack == Init /\ [][NextStack]_vars

\* the effects a mask enables
EnabledEffects(mask) ==
  {b \in {APP_FX_BIT_DISTORTION, APP_FX_BIT_REVERB, APP_FX_BIT_DELAY} :
     HasBit(mask, b)}

\* C20: in a frame the effective delay wet mix is the set delay mix when
\* delay is the only enabled effect and floor(3 * mix / 4) when two or more
\* effects are enabled; the effective reverb wet mix is the set reverb mix
\* when reverb is the only enabled effect and floor(mix / 2) when two or
\* more effects are enabled.
C20_StackedMixesAreAttenuated ==
  ret.frame =>
    \A c \in Chan :
      /\ HasBit(ret.mask, APP_FX_BIT_DELAY) =>
           ret.mixed[c].Delay =
             IF Cardinality(EnabledEffects(ret.mask)) = 1
               THEN s_delay_mix_q15
               ELSE (3 * s_delay_mix_q15) \div 4
      /\ HasBit(ret.mask, APP_FX_BIT_REVERB) =>
           ret.mixed[c].Reverb =
             IF Cardinality(EnabledEffects(ret.mask)) = 1
               THEN s_reverb_mix_q15
               ELSE s_reverb_mix_q15 \div 2

\* C20 witness: both mixes were set to 12345 at run time and a frame ran
\* with all three effects: the delay was mixed at 9258 and the reverb at
\* 6172
C20_Witness ==
  /\ ret.frame /\ ret.mask = 7
  /\ s_delay_mix_q15 = 12345 /\ s_reverb_mix_q15 = 12345
  /\ \A c \in Chan :
       ret.mixed[c].Delay = 9258 /\ ret.mixed[c].Reverb = 6172

(***************************************************************************)
(* SpecClip: hard_tube_clip_s24 on S24 inputs at the ends of the range and *)
(* around its two thresholds                                               *)
(***************************************************************************)
\* distances from a threshold: on it, next to it, and at and around one and
\* two steps of 1024
ClipOffsets == {-2049, -2048, -2047, -1025, -1024, -1023, -2, -1, 0, 1, 2,
                1023, 1024, 1025, 2047, 2048, 2049}
ClipInputs ==
  {S24_MIN, S24_MIN + 1, -1, 0, 1, S24_MAX - 1, S24_MAX}
  \cup {thr_pos + d : d \in ClipOffsets}
  \cup {-thr_neg + d : d \in ClipOffsets}

\* a call of hard_tube_clip_s24, with the call before it kept for comparison
CallHardTubeClip(x) ==
  /\ call' = [op |-> "hard_tube_clip_s24", x |-> x]
  /\ ret' = [frame |-> FALSE, y |-> hard_tube_clip_s24(x)]
  /\ hist' = IF call.op = "hard_tube_clip_s24"
               THEN <<[x |-> call.x, y |-> ret.y]>> ELSE <<>>
  /\ steps' = steps + 1
  /\ UNCHANGED <<modeVars, paramVars, filterVars, fxVars, fx_sel, ioVars>>

NextClip ==
  \E x \in ClipInputs : steps < MaxClipCalls /\ CallHardTubeClip(x)

SpecClip == Init /\ [][NextClip]_vars

\* C21: for every S24 input x, hard_tube_clip_s24(x) is x when
\* -900000 <= x <= 1200000, 1200000 + ((x - 1200000) >> 10) above and
\* -900000 + ((x + 900000) >> 10) (arithmetic shift) below; it is
\* monotonically non-decreasing in x and its result lies in
\* [-907314, 1207020].
C21_AsymmetricClip ==
  call.op = "hard_tube_clip_s24" =>
    /\ ret.y = IF call.x > 1200000
                 THEN 1200000 + ((call.x - 1200000) \div 1024)
               ELSE IF call.x < -900000
                 THEN -900000 + ((call.x + 900000) \div 1024)
               ELSE call.x
    /\ ret.y \in -907314..1207020
    /\ \A i \in DOMAIN hist :
         /\ hist[i].x <= call.x => hist[i].y <= ret.y
         /\ hist[i].x >= call.x => hist[i].y >= ret.y

\* C21 witness: the most negative sample came back as the lower end of the
\* range, one short of a step of 1024 below the negative threshold, after
\* the most positive sample had come back as the upper end
C21_Witness ==
  /\ call.op = "hard_tube_clip_s24" /\ call.x = S24_MIN /\ ret.y = -907314
  /\ hist = <<[x |-> S24_MAX, y |-> 1207020]>>

(***************************************************************************)
(* SpecRelease: the limiter on a few frames above its threshold and then   *)
(* on frames at or below it for as long as the transport delivers frames   *)
(***************************************************************************)
InitRelease ==
  /\ ProgInit
  /\ call = [op |-> "boot"]
  /\ hist = <<>>
  /\ ret = RetNone
  /\ steps = 0
  /\ fx_sel = "limiter"

\* a call of DspFilters_Limiter; steps counts the calls handed a peak above
\* the threshold
CallLimiter(l, r, loud) ==
  LET f == DspFilters_Limiter(s_limiter, l, r)
  IN  /\ s_limiter' = f.gain_q15
      /\ call' = [op |-> "DspFilters_Limiter", l |-> l, r |-> r]
      /\ ret' = [frame |-> FALSE, l |-> f.l, r |-> f.r]
      /\ steps' = steps + loud
      /\ UNCHANGED <<modeVars, paramVars, fxVars, s_dc, s_clean_hpf,
                     s_wet_hpf_delay, s_wet_hpf_reverb, s_comp, s_cab,
                     s_wet_lpf_delay, s_wet_lpf_reverb, hist, fx_sel, ioVars>>

\* frames whose peak is above the threshold, and frames whose peak is at or
\* below it
LoudFrames == {<<S24_MAX, 0>>, <<-1, S24_MIN>>, <<7000000, 7000000>>}
QuietFrames == {<<0, 0>>, <<AUDIO_LIMITER_THRESH_S24, -1>>}

LoudLimiterFrame ==
  \E f \in LoudFrames : steps < MaxLoudFrames /\ CallLimiter(f[1], f[2], 1)

QuietLimiterFrame ==
  \E f \in QuietFrames : CallLimiter(f[1], f[2], 0)

NextRelease == LoudLimiterFrame \/ QuietLimiterFrame

\* the audio transport keeps delivering frames
SpecRelease ==
  InitRelease /\ [][NextRelease]_vars /\ WF_vars(QuietLimiterFrame)

\* a limiter call whose peak is at or below the threshold
QuietStep ==
  /\ call'.op = "DspFilters_Limiter"
  /\ Magnitude(call'.l) <= 6500000 /\ Magnitude(call'.r) <= 6500000

\* C23: if from some frame on the pre-limiter peak stays at or below the
\* threshold 6,500,000, the limiter gain never decreases and eventually
\* returns to unity (32768), whatever value it had been reduced to.
C23_LimiterReleasesToUnity ==
  /\ [][QuietStep => s_limiter' >= s_limiter]_vars
  /\ <>[](s_limiter = 32768)

(***************************************************************************)
(* SpecComp: DspFilters_CompressOne on the left channel's state            *)
(***************************************************************************)
CallCompressOne(x) ==
  LET f == DspFilters_CompressOne(s_comp["l"], x)
  IN  /\ s_comp' = [s_comp EXCEPT !["l"] = f.st]
      /\ call' = [op |-> "DspFilters_CompressOne", x |-> x]
      /\ ret' = [frame |-> FALSE, y |-> f.y]
      /\ steps' = steps + 1
      /\ UNCHANGED <<modeVars, paramVars, fxVars, s_limiter, s_dc,
                     s_clean_hpf, s_wet_hpf_delay, s_wet_hpf_reverb, s_cab,
                     s_wet_lpf_delay, s_wet_lpf_reverb, hist, fx_sel, ioVars>>

\* samples as the input gain of the frame hands them over: silence, the
\* threshold, the ends of the S24 range and those ends times the input gain
CompInputs ==
  {0, -1, CLEAN_COMP_THRESH_S24, S24_MIN, S24_MAX,
   gain_s32_q8(S24_MIN, AUDIO_INPUT_GAIN_Q8),
   gain_s32_q8(S24_MAX, AUDIO_INPUT_GAIN_Q8)}

NextComp ==
  \E x \in CompInputs : steps < MaxCompCalls /\ CallCompressOne(x)

SpecComp == Init /\ [][NextComp]_vars

CompStep == call'.op = "DspFilters_CompressOne" /\ steps' = steps + 1

\* the target gain of the call that led to the state after the step
CompTargetAfter ==
  IF s_comp'["l"].env <= 3000000 THEN 32768 ELSE CompTarget(s_comp'["l"].env)

\* C24: after every DspFilters_CompressOne call the envelope is >= 0 and the
\* gain is in [0,32768]; the target gain is unity whenever the envelope is at
\* or below the threshold 3,000,000; each call moves the gain toward the
\* target without overshooting it; and the output magnitude never exceeds
\* the input magnitude clamped to S24.
C24_CompressorInvariants ==
  [][CompStep =>
       /\ s_comp'["l"].env >= 0
       /\ s_comp'["l"].gain_q15 \in 0..32768
       /\ CompTargetAfter = CompTarget(s_comp'["l"].env)
       /\ s_comp["l"].gain_q15 <= CompTargetAfter =>
            s_comp'["l"].gain_q15 \in s_comp["l"].gain_q15..CompTargetAfter
       /\ s_comp["l"].gain_q15 >= CompTargetAfter =>
            s_comp'["l"].gain_q15 \in CompTargetAfter..s_comp["l"].gain_q15
       /\ Magnitude(ret'.y) <= Magnitude(clamp_s24(call'.x))]_vars

\* C24 witness: a full-scale sample met an envelope above the threshold and
\* a gain below unity, and left the compressor smaller than it came
C24_Witness ==
  /\ call.op = "DspFilters_CompressOne" /\ call.x = S24_MAX
  /\ s_comp["l"].env > 3000000
  /\ s_comp["l"].gain_q15 \in 1..32767
  /\ CompTarget(s_comp["l"].env) < s_comp["l"].gain_q15
  /\ ret.y = MulShr(S24_MAX, s_comp["l"].gain_q15, 15)
  /\ ret.y < S24_MAX

(***************************************************************************)
(* SpecSettle: DspFilters_DcBlock alone, or AppDsp_ProcessFrame in bypass  *)
(* mode, on a few samples of signal and then on silence for as long as the *)
(* transport delivers frames                                               *)
(***************************************************************************)
InitSettle ==
  /\ ProgInit
  /\ call = [op |-> "boot", tick |-> 0, signal |-> 1]
  /\ hist = <<>>
  /\ ret = RetNone
  /\ steps = 0
  /\ fx_sel \in {"dcblock", "frames"}

\* a call of DspFilters_DcBlock on the left channel's state; tick tells a call
\* from the one before it, steps counts the calls handed a signal (signal = 1)
CallDcBlock(x, signal) ==
  LET f == DspFilters_DcBlock(s_dc["l"], x)
  IN  /\ s_dc' = [s_dc EXCEPT !["l"] = f.st]
      /\ call' = [op |-> "DspFilters_DcBlock", x |-> x,
                  tick |-> 1 - call.tick, signal |-> signal]
      /\ ret' = [frame |-> FALSE, y |-> f.y]
      /\ steps' = steps + signal
      /\ UNCHANGED <<modeVars, paramVars, fxVars, s_limiter, s_clean_hpf,
                     s_wet_hpf_delay, s_wet_hpf_reverb, s_comp, s_cab,
                     s_wet_lpf_delay, s_wet_lpf_reverb, hist, fx_sel, ioVars>>

\* a frame in bypass mode
CallBypassFrame(l, r, signal) ==
  /\ AppDsp_ProcessFrame(l, r, "wrap")
  /\ call' = [op |-> "ProcessFrame", l |-> l, r |-> r,
              tick |-> 1 - call.tick, signal |-> signal]
  /\ steps' = steps + signal
  /\ UNCHANGED <<hist, fx_sel, ioVars>>

SettleSamples == {1, -1, -1000}
SettleFrames == {<<1, -1>>, <<-1000, 1000>>}

\* the signal, which ends with the first silent call
SignalCall ==
  \/ \E x \in SettleSamples :
       /\ fx_sel = "dcblock" /\ steps < MaxSettleInputs /\ call.signal = 1
       /\ CallDcBlock(x, 1)
  \/ \E f \in SettleFrames :
       /\ fx_sel = "frames" /\ steps < MaxSettleInputs /\ call.signal = 1
       /\ CallBypassFrame(f[1], f[2], 1)

SilentCall ==
  \/ fx_sel = "dcblock" /\ CallDcBlock(0, 0)
  \/ fx_sel = "frames" /\ CallBypassFrame(0, 0, 0)

NextSettle == SignalCall \/ SilentCall

\* a call with the arguments of the call before it
NextCallArrives == call' = [call EXCEPT !.tick = 1 - call.tick]

\* the audio transport keeps delivering frames: the run of calls never ends
SpecSettle == InitSettle /\ [][NextSettle]_vars /\ WF_call(NextCallArrives)

\* C25: from any reachable DC-blocker state, if the input is held at 0 from
\* some call on, the output of DspFilters_DcBlock eventually becomes 0 and
\* stays 0, and likewise in bypass mode the outputs of AppDsp_ProcessFrame
\* eventually become and stay (0,0).
C25_ReturnToSilence ==
  /\ <>[](call.op = "DspFilters_DcBlock" => ret.y = 0)
  /\ <>[](ret.frame => ret.out = [l |-> 0, r |-> 0])

(***************************************************************************)
(* SpecTap: DspReverb_Process on the two channels side by side, the left   *)
(* with the LFO step 65536 and the right with 77824, on inputs that may    *)
(* differ from some call on                                                *)
(***************************************************************************)
\* the LFO result of the call on channel c
TapLfo(c) ==
  triangle_lfo_offset_q8(s_reverb[c].lfo, LfoStep(c), REVERB_MOD_AMP_SAMPLES)

\* the calls of AppDsp_ProcessFrame's reverb block; since counts the calls
\* from the first one whose two inputs differed, that one included (0: none
\* yet); hist holds what each left call wrote to the delay line
CallReverbPair(xl, xr) ==
  LET fl == DspReverb_Process(xl, s_reverb["l"], LfoStep("l"),
                              s_reverb_damp_q15, s_reverb_feedback_q15)
      fr == DspReverb_Process(xr, s_reverb["r"], LfoStep("r"),
                              s_reverb_damp_q15, s_reverb_feedback_q15)
  IN  /\ s_reverb' = [l |-> fl.st, r |-> fr.st]
      /\ call' = [op |-> "DspReverb_Process", x |-> xl, xr |-> xr,
                  idx |-> s_reverb["l"].idx,
                  since |-> IF call.op = "DspReverb_Process" /\ call.since > 0
                              THEN call.since + 1
                            ELSE IF xl # xr THEN 1 ELSE 0]
      /\ ret' = [frame |-> FALSE, y |-> fl.y, yr |-> fr.y,
                 ri0 |-> fl.ri0, ri1 |-> fl.ri1, d |-> fl.d,
                 off_q8 |-> [c \in Chan |-> TapLfo(c).off_q8]]
      /\ hist' = Append(hist, fl.st.delay[s_reverb["l"].idx])
      /\ steps' = steps + 1
      /\ UNCHANGED <<modeVars, paramVars, filterVars, s_dist, s_delay_buf,
                     s_delay, fx_sel, ioVars>>

TapInputs == {0, S24_MAX}

NextTap ==
  \E xl \in TapInputs, xr \in TapInputs :
    steps < MaxTapCalls /\ CallReverbPair(xl, xr)

SpecTap == Init /\ [][NextTap]_vars

\* what the call before the last REVERB_DELAY_LEN calls wrote to the entry
\* under the cursor (0: the entry has not been written)
WrittenOneLapEarlier ==
  IF Len(hist) > REVERB_DELAY_LEN
    THEN hist[Len(hist) - REVERB_DELAY_LEN] ELSE 0

\* C26: with the modulation amplitude at its default 0 the reverb tap offset
\* and interpolation fraction are 0 in every call, so DspReverb_Process reads
\* exactly the entry at the cursor (the value written one lap of the delay
\* line earlier) before overwriting it; an input sample cannot influence the
\* returned value until one lap later, and the returned values do not depend
\* on the LFO step (65536 or 77824) or LFO phase.
C26_ReverbReadsAtTheCursor ==
  call.op = "DspReverb_Process" =>
    /\ \A c \in Chan : ret.off_q8[c] = 0
    /\ ret.ri0 = call.idx
    /\ ret.d = WrittenOneLapEarlier
    /\ call.since <= REVERB_DELAY_LEN => ret.y = ret.yr
    /\ s_reverb["l"].lfo # s_reverb["r"].lfo

\* C26 witness: the two inputs differed for the first time one lap and one
\* call ago, and the two returned values differ in this call: the sample
\* written then was read back now
C26_Witness ==
  /\ call.op = "DspReverb_Process"
  /\ call.since = REVERB_DELAY_LEN + 1
  /\ ret.y # ret.yr
  /\ ret.d = S24_MAX /\ ret.d = hist[Len(hist) - REVERB_DELAY_LEN]

(***************************************************************************)
(* SpecRing: the audio ring.  ring_push_frames_s24 is called from the RX   *)
(* callback and tx_fill_half from the TX callback; the source sets no      *)
(* interrupt priorities, so the push may run before, after or between the  *)
(* steps of one activation of tx_fill_half (snapshot, one step per frame,  *)
(* publication of the read index).  The frames pushed are numbered: frame  *)
(* n carries l = n and r = -n, so a slot tells which frame it holds and    *)
(* the slot before the write index tells how many frames were pushed.     *)
(***************************************************************************)
PushedFrames == s_audio.ring_l[(s_audio.w - 1) % AUDIO_RING_FRAMES]

RingRetNone == [frame |-> FALSE, pushed |-> 0, consumed |-> 0, got |-> <<>>]

InitRing ==
  /\ ProgInit
  /\ call = [op |-> "AppAudio_Start"]
  /\ hist = <<>>
  /\ ret = RingRetNone
  /\ steps = 0
  /\ fx_sel = "none"

RingStep ==
  /\ steps < MaxRingSteps
  /\ steps' = steps + 1
  /\ UNCHANGED <<modeVars, paramVars, filterVars, fxVars, hist, fx_sel,
                 s_com>>

\* process_rx_half pushes the next frame
RingPush ==
  /\ RingStep
  /\ LET n == PushedFrames + 1 IN
       /\ s_audio' = ring_push_frames_s24(s_audio, n, -n)
       /\ call' = [op |-> "ring_push_frames_s24", l |-> n, r |-> -n]
  /\ UNCHANGED ret

\* AppAudio_OnTxHalfCplt / AppAudio_OnTxCplt enter tx_fill_half
TxFillBegin ==
  /\ RingStep
  /\ s_audio.tx.pc = "idle"
  /\ s_audio' = tx_fill_begin(s_audio, 1 - s_audio.tx.half)
  /\ call' = [op |-> "tx_fill_half", half_index |-> 1 - s_audio.tx.half]
  /\ ret' = [frame |-> FALSE, pushed |-> PushedFrames,
             consumed |-> s_audio.r_q16 \div 65536, got |-> <<>>]

TxFillFrame ==
  /\ RingStep
  /\ s_audio.tx.pc = "loop"
  /\ s_audio.tx.frame < AUDIO_FRAMES_PER_HALF
  /\ s_audio' = tx_fill_frame(s_audio)
  /\ call' = [op |-> "tx_fill_half", half_index |-> s_audio.tx.half]
  /\ ret' = [ret EXCEPT !.got = <<tx_fill_read(s_audio)>>]

TxFillEnd ==
  /\ RingStep
  /\ s_audio.tx.pc = "loop"
  /\ s_audio.tx.frame = AUDIO_FRAMES_PER_HALF
  /\ s_audio' = tx_fill_end(s_audio)
  /\ call' = [op |-> "tx_fill_half", half_index |-> s_audio.tx.half]
  /\ ret' = [ret EXCEPT !.got = <<>>]

NextRing == RingPush \/ TxFillBegin \/ TxFillFrame \/ TxFillEnd

SpecRing == InitRing /\ [][NextRing]_vars

\* a frame number that was pushed before the snapshot of the activation in
\* progress and that the read index had not passed at that snapshot
PublishedAtSnapshot(n) == n > ret.consumed /\ n <= ret.pushed

\* C27: every slot tx_fill_half reads (idx0 and idx1) holds a frame that was
\* pushed before the write-index snapshot of that activation and not yet
\* consumed, and the read position, the published one and the one of the
\* activation in progress, never passes the number of frames pushed.
C27_ReaderStaysBehindWriter ==
  /\ \A i \in 1..Len(ret.got) :
       ret.got[i].read =>
         /\ PublishedAtSnapshot(ret.got[i].l0)
         /\ PublishedAtSnapshot(ret.got[i].l1)
  /\ s_audio.r_q16 \div 65536 <= PushedFrames
  /\ s_audio.tx.pc = "loop" => s_audio.tx.r_q16 \div 65536 <= PushedFrames

(***************************************************************************)
(* SpecUart: the UART reply queue.  The main context calls AppCom_Init and *)
(* then uart_send_line; tx_enqueue_bytes masks the interrupts while it     *)
(* stores, so the interrupt handlers (the transmission of one byte by the  *)
(* HAL, AppCom_OnUartTxCplt, AppCom_OnUartError) run between the calls     *)
(* uart_send_line makes: store the text, tx_kick, store the newline,       *)
(* tx_kick.  hist records the bytes tx_enqueue_bytes stored, the bytes of  *)
(* the chunks HAL_UART_Transmit_IT was handed, the bytes the HAL sent and  *)
(* the transfers AppCom_OnUartError aborted.  The receive mode does not    *)
(* bear on the queue: reception starts in byte mode here.                  *)
(***************************************************************************)
UartHistZero == [accepted |-> <<>>, handed |-> <<>>, wire |-> <<>>,
                 aborted |-> 0]

InitUart ==
  /\ ProgInit
  /\ call = [op |-> "boot"]
  /\ hist = UartHistZero
  /\ ret = [frame |-> FALSE, done |-> FALSE, line |-> <<>>, before |-> <<>>]
  /\ steps = 0
  /\ fx_sel = "none"

UartFrame ==
  UNCHANGED <<modeVars, paramVars, filterVars, fxVars, fx_sel, s_audio>>

\* the calls uart_send_line(line) makes
SendLineCalls(line) ==
  <<[op |-> "enqueue", data |-> line], [op |-> "enqueue", data |-> <<LF>>]>>

\* the byte at offset k of the memory HAL_UART_Transmit_IT was pointed at
HalTxByteAt(c, ptr, k) ==
  IF ptr + k < APP_COM_TX_RING_SIZE THEN c.tx_ring[ptr + k] ELSE "outside"

\* hist after a call of tx_kick on c: the chunk handed over, if any
HandedBy(kick(_), c) ==
  IF kick(c).hal_tx.active /\ ~c.hal_tx.active
    THEN [hist EXCEPT !.handed =
            @ \o [k \in 1..kick(c).hal_tx.len |->
                    HalTxByteAt(c, kick(c).hal_tx.ptr, k - 1)]]
    ELSE hist

\* the texts the n-th call may send: no two calls share a character
LineTexts(n) ==
  {Chars(SubSeq(SubSeq("abcdefghijklmnopqrstuvwxyz", 3 * n + 1, 3 * n + 3),
                1, len)) : len \in 1..MaxLineChars}

CallAppComInit ==
  /\ steps < MaxUartSteps
  /\ s_com.uart = "NULL"
  /\ s_com' = [AppCom_Init(s_com, FALSE, FALSE, FALSE)
                 EXCEPT !.main = SendLineCalls(Chars("READY"))]
  /\ call' = [op |-> "AppCom_Init"]
  /\ ret' = [frame |-> FALSE, done |-> FALSE, line |-> Chars("READY"),
             before |-> hist.accepted]
  /\ steps' = steps + 1
  /\ UNCHANGED hist
  /\ UartFrame

CallUartSendLine ==
  /\ steps < MaxUartSteps
  /\ s_com.uart # "NULL"
  /\ s_com.main = <<>>
  /\ \E line \in LineTexts(steps) :
       /\ s_com' = [s_com EXCEPT !.main = SendLineCalls(line)]
       /\ call' = [op |-> "uart_send_line", line |-> line]
       /\ ret' = [frame |-> FALSE, done |-> FALSE,
                  line |-> line, before |-> hist.accepted]
  /\ steps' = steps + 1
  /\ UNCHANGED hist
  /\ UartFrame

\* the next call of uart_send_line: the critical section of
\* tx_enqueue_bytes, or the tx_kick that follows it when it stored
MainStep ==
  /\ s_com.main # <<>>
  /\ LET m == Head(s_com.main)
         rest == Tail(s_com.main)
     IN IF m.op = "enqueue"
          THEN IF TxAccepts(s_com, m.data)
                 THEN /\ s_com' = [tx_enqueue_store(s_com, m.data)
                                     EXCEPT !.main = <<[op |-> "kick"]>>
                                                       \o rest]
                      /\ hist' = [hist EXCEPT !.accepted = @ \o m.data]
                      /\ UNCHANGED ret
                 ELSE /\ s_com' = [s_com EXCEPT !.main = rest]
                      /\ ret' = [ret EXCEPT !.done = rest = <<>>]
                      /\ UNCHANGED hist
          ELSE /\ s_com' = [tx_kick(s_com) EXCEPT !.main = rest]
               /\ hist' = HandedBy(tx_kick, s_com)
               /\ ret' = [ret EXCEPT !.done = rest = <<>>]
  /\ UNCHANGED <<call, steps>>
  /\ UartFrame

\* the HAL sends the next byte of the transfer it holds
HalTxByte ==
  /\ s_com.hal_tx.active
  /\ s_com.hal_tx.pos < s_com.hal_tx.len
  /\ s_com' = [s_com EXCEPT !.hal_tx.pos = @ + 1]
  /\ hist' = [hist EXCEPT !.wire =
                Append(@, HalTxByteAt(s_com, s_com.hal_tx.ptr,
                                      s_com.hal_tx.pos))]
  /\ UNCHANGED <<call, ret, steps>>
  /\ UartFrame

\* the HAL sent the last byte: HAL_UART_TxCpltCallback
CallOnUartTxCplt ==
  /\ s_com.hal_tx.active
  /\ s_com.hal_tx.pos = s_com.hal_tx.len
  /\ LET c == [s_com EXCEPT !.hal_tx = HalTxIdle]
     IN /\ s_com' = AppCom_OnUartTxCplt(c)
        /\ hist' = HandedBy(AppCom_OnUartTxCplt, c)
  /\ call' = [op |-> "AppCom_OnUartTxCplt", sent |-> Len(hist.wire)]
  /\ UNCHANGED <<ret, steps>>
  /\ UartFrame

\* HAL_UART_ErrorCallback
CallOnUartError ==
  /\ steps < MaxUartSteps
  /\ s_com.uart # "NULL"
  /\ hist.aborted < MaxUartErrors
  /\ \E dma_ok \in BOOLEAN, it_ok \in BOOLEAN :
       /\ s_com' = AppCom_OnUartError(s_com, dma_ok, it_ok)
       /\ hist' = [HandedBy(LAMBDA c : AppCom_OnUartError(c, dma_ok, it_ok),
                            [s_com EXCEPT !.hal_tx = HalTxIdle])
                     EXCEPT !.aborted = @ + 1]
  /\ call' = [op |-> "AppCom_OnUartError"]
  /\ steps' = steps + 1
  /\ UNCHANGED ret
  /\ UartFrame

NextUart ==
  \/ CallAppComInit
  \/ CallUartSendLine
  \/ MainStep
  \/ HalTxByte
  \/ CallOnUartTxCplt
  \/ CallOnUartError

\* the main context goes on, and the HAL sends the bytes it was handed and
\* reports completion
SpecUart ==
  /\ InitUart
  /\ [][NextUart]_vars
  /\ WF_vars(MainStep)
  /\ WF_vars(HalTxByte)
  /\ WF_vars(CallOnUartTxCplt)

IsPrefix(a, b) == Len(a) <= Len(b) /\ SubSeq(b, 1, Len(a)) = a

\* no transmission was aborted: each one started completes with
\* AppCom_OnUartTxCplt
EachTransmissionCompletes == hist.aborted = 0

\* the bytes handed to the HAL are the bytes accepted, in order and once;
\* the bytes sent are the bytes handed over
QueueIsFifo ==
  /\ IsPrefix(hist.handed, hist.accepted)
  /\ IsPrefix(hist.wire, hist.handed)

\* the bytes of the transfer in flight that were not sent yet are still in
\* the ring
InFlightBytesIntact ==
  s_com.hal_tx.active =>
    \A k \in s_com.hal_tx.pos..(s_com.hal_tx.len - 1) :
      HalTxByteAt(s_com, s_com.hal_tx.ptr, k)
        = hist.handed[Len(hist.handed) - s_com.hal_tx.len + k + 1]

\* a step of AppCom_OnUartTxCplt moves the read index by the length of the
\* chunk the HAL was handed
ReadIndexAdvance ==
  call'.op = "AppCom_OnUartTxCplt" /\ call' # call =>
    s_com'.tx_rd = (s_com.tx_rd + s_com.hal_tx.len) % APP_COM_TX_RING_SIZE

C29_ReplyLinesAreAtomic ==
  ret.done =>
    \/ hist.accepted = ret.before
    \/ hist.accepted = ret.before \o ret.line \o <<LF>>

(***************************************************************************)
(* SpecPoll: the command lines.  AppCom_Init has run; the receive          *)
(* callbacks store bytes in the RX ring and AppCom_Poll, in the main       *)
(* context, takes them out: one step of it runs up to the next call of     *)
(* handle_line, which may call a setter of the DSP and queues its reply.   *)
(* hist holds the characters AppCom_Poll took from the ring since the last *)
(* newline, ret the line that ended at the last newline, what handle_line  *)
(* was handed for it and the setter it called.                             *)
(***************************************************************************)
PollRetNone == [frame |-> FALSE, handled |-> FALSE]

InitPoll ==
  /\ DspStatics
  /\ s_audio = AudioZero
  /\ \E conf \in {<<TRUE, TRUE, TRUE>>, <<FALSE, FALSE, TRUE>>,
                  <<FALSE, FALSE, FALSE>>} :
       s_com = uart_send_line(AppCom_Init(ComZero, conf[1], conf[2],
                                          conf[3]),
                              Chars("READY"))
  /\ call = [op |-> "AppCom_Init"]
  /\ hist = <<>>
  /\ ret = PollRetNone
  /\ steps = 0
  /\ fx_sel = "none"

\* n times the character ch
Fill(ch, n) == [i \in 1..n |-> ch]

\* what one receive event delivers: commands, a command padded with spaces
\* to APP_COM_LINE_MAX - 1 and to APP_COM_LINE_MAX characters, a command at
\* the end of a line that is too long, and a piece of a line
PollChunks ==
  {Chars("PING") \o <<LF>>,
   Chars("FXMASK 1") \o <<CR, LF>>,
   Chars("PSET gain_q15 100") \o <<LF>>,
   Chars("FXMASK 5") \o Fill(" ", APP_COM_LINE_MAX - 9) \o <<LF>>,
   Chars("FXMASK 3") \o Fill(" ", APP_COM_LINE_MAX - 8) \o <<LF>>,
   Fill("x", APP_COM_LINE_MAX) \o Chars("FXMASK 7") \o <<LF>>,
   Fill("x", 100)}

PollBytes == {"x", LF}

PollFrame ==
  /\ steps < MaxPollSteps
  /\ steps' = steps + 1
  /\ UNCHANGED <<fx_sel, s_audio>>

CallOnUartRxEvent ==
  /\ PollFrame
  /\ \E rx_dma \in PollChunks :
       /\ s_com' = AppCom_OnUartRxEvent(s_com, rx_dma)
       /\ call' = [op |-> "AppCom_OnUartRxEvent", size |-> Len(rx_dma)]
  /\ UNCHANGED <<modeVars, paramVars, filterVars, fxVars, hist, ret>>

CallOnUartRxCplt ==
  /\ PollFrame
  /\ \E b \in PollBytes :
       /\ s_com' = AppCom_OnUartRxCplt(s_com, b)
       /\ call' = [op |-> "AppCom_OnUartRxCplt", b |-> b]
  /\ UNCHANGED <<modeVars, paramVars, filterVars, fxVars, hist, ret>>

\* the characters of a line among the bytes taken from the ring
IsLineChar(b) == b \notin {CR, LF}
LineChars(read) == SelectSeq(read, IsLineChar)

CallPoll ==
  /\ PollFrame
  /\ s_com.rx_rd # s_com.rx_wr
  /\ LET p == AppCom_Poll(s_com)
     IN IF p.handled = <<>>
          THEN /\ s_com' = p.c
               /\ hist' = hist \o LineChars(p.read)
               /\ ret' = PollRetNone
               /\ UNCHANGED <<modeVars, paramVars, filterVars, fxVars>>
          ELSE LET h == handle_line(p.handled[1])
               IN /\ CASE h.set = "fxmask" -> AppDsp_SetFxMask(h.mask)
                       [] h.set = "pset" -> AppDsp_SetParam(h.id, h.v)
                       [] OTHER -> UNCHANGED <<modeVars, paramVars,
                                               filterVars, fxVars>>
                  /\ s_com' = IF h.reply = <<>> THEN p.c
                              ELSE uart_send_line(p.c, h.reply[1])
                  /\ hist' = <<>>
                  /\ ret' = [frame |-> FALSE, handled |-> TRUE,
                             raw |-> hist \o LineChars(p.read),
                             passed |-> CStr(p.handled[1]),
                             set |-> h.set, reply |-> h.reply]
  /\ call' = [op |-> "AppCom_Poll"]

NextPoll == CallOnUartRxEvent \/ CallOnUartRxCplt \/ CallPoll

SpecPoll == InitPoll /\ [][NextPoll]_vars

\* C30: a line of APP_COM_LINE_MAX - 1 or more characters before its
\* newline is discarded as a whole (handle_line is handed no part of it and
\* no setter of the DSP is called for it), a shorter line is handed over as
\* it was received, whatever came before it, and the index of the line
\* buffer never reaches APP_COM_LINE_MAX.
C30_OverlongLinesAreDiscarded ==
  /\ s_com.line_len < APP_COM_LINE_MAX
  /\ ret.handled =>
       IF Len(ret.raw) >= APP_COM_LINE_MAX - 1
         THEN ret.passed = <<>> /\ ret.set = "none"
         ELSE ret.passed = ret.raw

=============================================================================
